---- MODULE Spec2Model ----
(***************************************************************************)
(* The symbol graph store of symgraph-core, in its two realizations:       *)
(*   - SymgraphDb (database.rs): an ordered key-value store (sled) with     *)
(*     hand-written index records; every key is one string,                 *)
(*   - Db (lib.rs): a relational store (SQLite) with one table per entity.  *)
(* Every action applies one call of the ingestion / query API to both       *)
(* stores with the same arguments; identifiers returned earlier are passed  *)
(* back through handles (the index of the call that returned them).         *)
(***************************************************************************)
EXTENDS Bags, FiniteSets, Integers, Sequences, TLC

(***************************************************************************)
(* Bounds                                                                   *)
(***************************************************************************)
MaxFiles == 2
MaxModules == 2
MaxProjects == 2
\* symbols and edges inserted, together
MaxFacts == 4
\* calls at which the backing store fails
MaxFaults == 1
\* SCIP symbols in the store when an index is loaded
MaxScip == 1
\* calls that one worker makes
MaxCalls == 2

(***************************************************************************)
(* Option<T>: None is the empty sequence, Some(x) the one-element sequence. *)
(***************************************************************************)
None == <<>>
Some(x) == <<x>>
IsSome(o) == Len(o) = 1
Unwrap(o) == o[1]

Range(s) == {s[i] : i \in 1..Len(s)}

(***************************************************************************)
(* Uuid::new_v4(): a fresh identifier.  The model draws it from a pool of   *)
(* labels of equal length without ':' (as UUID text is), one pool per       *)
(* record type; a caller may pick any label of the pool not stored yet.     *)
(***************************************************************************)
Digits == <<"1", "2", "3", "4", "5", "6", "7", "8", "9">>
Uuid(tag, i) == tag \o Digits[i]
FileUuids == {Uuid("f", i) : i \in 1..MaxFiles}
ModuleUuids == {Uuid("m", i) : i \in 1..MaxModules}
ProjectUuids == {Uuid("p", i) : i \in 1..MaxProjects}
SymbolUuids == {Uuid("s", i) : i \in 1..MaxFacts}
EdgeUuids == {Uuid("e", i) : i \in 1..MaxFacts}
OccurrenceUuids == {Uuid("o", i) : i \in 1..MaxFacts}
ScipDocumentUuids == {Uuid("d", i) : i \in 1..MaxFacts}
ScipSymbolUuids == {Uuid("x", i) : i \in 1..MaxFacts}
ScipOccurrenceUuids == {Uuid("y", i) : i \in 1..MaxFacts}

(***************************************************************************)
(* Inputs                                                                   *)
(***************************************************************************)
Paths == {"a.cpp", "b.rs"}
\* (project_id, lang, category, purpose); the first is what ensure_file passes
FileAttrs == { <<"1", "c++", None, None>>,
               <<"2", "rust", Some("source"), Some("entry")>> }
ModuleNames == {"foo", "bar"}
ModuleKinds == {"cpp20-module", "rust-crate"}
ModulePaths == {"", "src/foo.cppm"}
RootPaths == {".", "/w"}
ProjectNames == {"cpp_project", "other"}
Usrs == {"c:@F@x#", "c:@F@y#"}
\* (usr, name)
SymbolInputs == { <<Some("c:@F@x#"), "foo">>, <<Some("c:@F@y#"), "bar">>,
                  <<None, "foo">> }
Kinds == {"call", "inherit"}
\* kind strings as a caller or an index may give them: insert_edge takes any
EdgeKindStrings == {"call", "call:virtual", "inherit"}
\* ModuleInfo of the module interface files that import_modules finds: name,
\* path and the names after import; a name matches [A-Za-z0-9_:.]+
ModuleFiles ==
    { [name |-> "foo", path |-> "src/foo.cppm", imports |-> <<"bar">>],
      [name |-> "foo", path |-> "src/foo.cppm", imports |-> <<"bar", "bar">>],
      [name |-> "bar", path |-> "src/bar.cppm", imports |-> <<>>],
      [name |-> "bar", path |-> "src/bar.cppm", imports |-> <<"foo">>],
      [name |-> "bar", path |-> "src/bar.cppm", imports |-> <<"bar">>] }
\* ScipParsedData: what parse_mock_data returns, an index of two symbols with
\* a relationship and an occurrence in a document that is not listed, and an
\* index without documents and project roots
ScipMain == "rust-analyzer cargo test_project 0.1.0 main()"
ScipHelper == "rust-analyzer cargo test_project 0.1.0 helper()"
ScipDoc == [relative_path |-> "src/main.rs", language |-> "rust",
            symbol_count |-> 1, occurrence_count |-> 2]
ScipOcc(path, symbol) ==
    [document_path |-> path, symbol |-> symbol,
     range |-> [start_line |-> 1, start_character |-> 0, end_line |-> 1,
                end_character |-> 10],
     roles |-> <<"definition">>, syntax_kind |-> "function"]
ScipSym(symbol, display_name, relationships) ==
    [symbol |-> symbol, documentation |-> Some("Main function"),
     display_name |-> display_name, symbol_kind |-> "function",
     relationships |-> relationships]
ScipInputs ==
    { [metadata |-> [project_roots |-> <<"file:///project">>], documents |-> <<ScipDoc>>,
       symbols |-> <<ScipSym(ScipMain, Some("main"), <<>>)>>,
       occurrences |-> <<ScipOcc("src/main.rs", ScipMain)>>],
      [metadata |-> [project_roots |-> <<"file:///project">>], documents |-> <<ScipDoc>>,
       symbols |-> <<ScipSym(ScipMain, Some("main"),
                             <<[kind |-> "call", target_symbol |-> ScipHelper]>>),
                     ScipSym(ScipHelper, None, <<>>)>>,
       occurrences |-> <<ScipOcc("src/lib.rs", ScipHelper)>>],
      [metadata |-> [project_roots |-> <<>>], documents |-> <<>>,
       symbols |-> <<ScipSym(ScipMain, Some("main"), <<>>)>>,
       occurrences |-> <<>>] }

\* the index of parse_mock_data with other ranges of its occurrence:
\* (start_line, start_character) as an indexer writes them, and a negative line
ScipOccAt(start_line, start_character) ==
    [ScipOcc("src/main.rs", ScipMain) EXCEPT !.range.start_line = start_line,
                                             !.range.start_character = start_character]
ScipRanges == { <<1, 0>>, <<5, 7>>, <<-1, 3>> }
ScipRanged ==
    { [metadata |-> [project_roots |-> <<"file:///project">>], documents |-> <<ScipDoc>>,
       symbols |-> <<ScipSym(ScipMain, Some("main"), <<>>)>>,
       occurrences |-> <<ScipOccAt(r[1], r[2])>>] : r \in ScipRanges }

\* what the visitor finds in the one source file of a package or of an extra
\* directory: the names of the functions (two functions of nested modules may
\* share a name) and the calls (caller, callee)
RustSources ==
    { [crate_name |-> "app", extra_dir |-> FALSE, path |-> "src/main.rs",
       symbols |-> <<"main", "helper">>, calls |-> << <<"main", "helper">> >>],
      [crate_name |-> "app", extra_dir |-> FALSE, path |-> "src/main.rs",
       symbols |-> <<"main">>, calls |-> <<>>],
      [crate_name |-> "lib", extra_dir |-> FALSE, path |-> "src/lib.rs",
       symbols |-> <<"impl_new", "impl_new">>, calls |-> <<>>],
      [crate_name |-> "", extra_dir |-> TRUE, path |-> "examples/demo.rs",
       symbols |-> <<"main">>, calls |-> << <<"main", "main">> >>] }

\* what the annotation pass writes: description, purpose, structure (or the
\* build system) and the dependencies as JSON
Annotations ==
    { [description |-> "a C++ project", purpose |-> "library", structure |-> "cmake",
       dependencies |-> "[]"],
      [description |-> "", purpose |-> "", structure |-> "", dependencies |-> "[\"fmt\"]"] }

\* chrono::Utc::now() at the call
Clock == {"2026-01-01T00:00:00+00:00"}

VARIABLES
    sled,          \* SymgraphDb.db: key string -> stored value
    conn,          \* Db.conn: the tables, each a sequence of rows; rowid = index
    ret,           \* the last call and what each realization returned
    firstFile,     \* history: path -> the first ensure_file call with it
    firstModule,   \* history: name -> the first upsert_module call with it
    firstProject,  \* history: root_path -> the first ensure_project call with it
    symLog,        \* history: the insert_symbol calls, in order
    edgeLog,       \* history: the insert_edge calls, in order
    occLog,        \* history: the insert_occurrence calls, in order
    failLog,       \* history: the calls that returned a write error, in order
    workers        \* the calls in progress of the workers that share the sled store

vars == <<sled, conn, ret, firstFile, firstModule, firstProject, symLog, edgeLog,
          occLog, failLog, workers>>

(***************************************************************************)
(* sled: get / insert / scan_prefix.  Keys are compared as byte strings.    *)
(***************************************************************************)
sled_get(store, key) == IF key \in DOMAIN store THEN Some(store[key]) ELSE None

sled_insert(store, key, value) ==
    [k \in DOMAIN store \cup {key} |-> IF k = key THEN value ELSE store[k]]

IsPrefix(p, s) == Len(p) <= Len(s) /\ SubSeq(s, 1, Len(p)) = p

\* the characters used in keys, in byte order
Alphabet == "#+-./0123456789:@ABCDEFGHIJKLMNOPQRSTUVWXYZ_abcdefghijklmnopqrstuvwxyz"
CharRank == [c \in {SubSeq(Alphabet, i, i) : i \in 1..Len(Alphabet)} |->
                CHOOSE i \in 1..Len(Alphabet) : SubSeq(Alphabet, i, i) = c]

\* a < b as byte strings that agree on their first i-1 characters
RECURSIVE BytesLess(_, _, _)
BytesLess(a, b, i) ==
    IF i > Len(a) THEN i <= Len(b)
    ELSE IF i > Len(b) THEN FALSE
    ELSE LET ca == CharRank[SubSeq(a, i, i)]
             cb == CharRank[SubSeq(b, i, i)]
         IN IF ca = cb THEN BytesLess(a, b, i + 1) ELSE ca < cb

RECURSIVE SortKeys(_, _)
SortKeys(keys, i) ==
    IF keys = {} THEN <<>>
    ELSE LET least == CHOOSE k \in keys : \A o \in keys \ {k} : BytesLess(k, o, i)
         IN <<least>> \o SortKeys(keys \ {least}, i)

\* mutant: the keys that start with the prefix, the greatest key first
sled_scan_prefix_descending(store, prefix) ==
    LET keys == SortKeys({k \in DOMAIN store : IsPrefix(prefix, k)}, Len(prefix) + 1)
    IN  [i \in 1..Len(keys) |-> keys[Len(keys) + 1 - i]]

\* the keys that start with the prefix, in key order
sled_scan_prefix(store, prefix) ==
    SortKeys({k \in DOMAIN store : IsPrefix(prefix, k)}, Len(prefix) + 1)

\* the labels of the pool that no record of the namespace ns has as its key
\* or as its id (a generated uuid is never generated again)
FreshUuids(store, pool, ns) ==
    {u \in pool : /\ (ns \o u) \notin DOMAIN store
                  /\ \A k \in DOMAIN store : IsPrefix(ns, k) => store[k].id # u}

(***************************************************************************)
(* db.insert(key, value)?  A call makes its writes one after the other; the *)
(* backing store may fail at one of them, and the call returns the error    *)
(* there: the writes made before stay, the later ones are not made.         *)
(* fail is the number of the write at which the store fails, 0 for none.    *)
(* A call returns its store, the id, whether the store failed at one of its *)
(* writes (failed) and whether it returned Ok (ok).                         *)
(***************************************************************************)
Failed(fail, n) == fail # 0 /\ fail <= n

(***************************************************************************)
(* Identity layer, key-value realization                                    *)
(***************************************************************************)
\* mutant: a repeat call stores the classification it was given
ensure_file_with_category_reclassify(store, fail, file_id, project_id, path, lang, category, purpose) ==
    LET key == "file:" \o path
        existing == sled_get(store, key)
        file == [id |-> file_id, project_id |-> project_id, module_id |-> None,
                 path |-> path, lang |-> lang,
                 category |-> category, purpose |-> purpose]
    IN IF IsSome(existing)
       THEN LET updated == [Unwrap(existing) EXCEPT !.category = category,
                                                    !.purpose = purpose]
            IN [store |-> sled_insert(sled_insert(store, key, updated),
                                      "file:" \o updated.id, updated),
                id |-> updated.id, ok |-> TRUE, failed |-> FALSE]
       ELSE [store |-> sled_insert(sled_insert(store, key, file),
                                   "file:" \o file.id, file),
             id |-> file_id, ok |-> TRUE, failed |-> FALSE]

SymgraphDb_ensure_file_with_category(store, fail, file_id, project_id, path, lang, category, purpose) ==
    LET file == [id |-> file_id, project_id |-> project_id, module_id |-> None,
                 path |-> path, lang |-> lang,
                 category |-> category, purpose |-> purpose]
        key == "file:" \o path
        existing == sled_get(store, key)
        s1 == IF Failed(fail, 1) THEN store ELSE sled_insert(store, key, file)
        s2 == IF Failed(fail, 2) THEN s1 ELSE sled_insert(s1, "file:" \o file.id, file)
    IN IF IsSome(existing)
       THEN [store |-> store, id |-> Unwrap(existing).id, ok |-> TRUE, failed |-> FALSE]
       ELSE [store |-> s2, id |-> file_id, ok |-> ~Failed(fail, 2),
        failed |-> Failed(fail, 2)]

SymgraphDb_ensure_project(store, fail, project_id, created_at, name, root_path) ==
    LET project == [id |-> project_id, name |-> name, root_path |-> root_path,
                    description |-> None, purpose |-> None, structure |-> None,
                    dependencies |-> None, created_at |-> created_at]
        key == "project:" \o root_path
        existing == sled_get(store, key)
        s1 == IF Failed(fail, 1) THEN store ELSE sled_insert(store, key, project)
        s2 == IF Failed(fail, 2) THEN s1
              ELSE sled_insert(s1, "project:" \o project.id, project)
    IN IF IsSome(existing)
       THEN [store |-> store, id |-> Unwrap(existing).id, ok |-> TRUE, failed |-> FALSE]
       ELSE [store |-> s2, id |-> project_id, ok |-> ~Failed(fail, 2),
        failed |-> Failed(fail, 2)]

\* the record under project:{project_id} gets the four annotations; a call
\* with an id under which nothing is stored writes nothing and returns Ok
SymgraphDb_update_project_annotation(store, project_id, description, purpose, structure, dependencies) ==
    LET key == "project:" \o project_id
        data == sled_get(store, key)
    IN IF IsSome(data)
       THEN sled_insert(store, key,
                [Unwrap(data) EXCEPT !.description = Some(description),
                                     !.purpose = Some(purpose),
                                     !.structure = Some(structure),
                                     !.dependencies = Some(dependencies)])
       ELSE store

\* mutant: a repeat call backfills the path and the kind of the record
upsert_module_backfill(store, fail, module_id, name, kind, path) ==
    LET key == "module:" \o name
        existing == sled_get(store, key)
        module == [id |-> module_id, project_id |-> "1", name |-> name, kind |-> kind,
                   path |-> IF path = "" THEN None ELSE Some(path)]
    IN IF IsSome(existing)
       THEN LET updated == [Unwrap(existing) EXCEPT !.kind = kind, !.path = module.path]
            IN [store |-> sled_insert(sled_insert(store, key, updated),
                                      "module:" \o updated.id, updated),
                id |-> updated.id, ok |-> TRUE, failed |-> FALSE]
       ELSE [store |-> sled_insert(sled_insert(store, key, module),
                                   "module:" \o module_id, module),
             id |-> module_id, ok |-> TRUE, failed |-> FALSE]

database_upsert_module(store, fail, module_id, name, kind, path) ==
    LET key == "module:" \o name
        existing == sled_get(store, key)
        module == [id |-> module_id, project_id |-> "1", name |-> name, kind |-> kind,
                   path |-> IF path = "" THEN None ELSE Some(path)]
        s1 == IF Failed(fail, 1) THEN store ELSE sled_insert(store, key, module)
        s2 == IF Failed(fail, 2) THEN s1 ELSE sled_insert(s1, "module:" \o module_id, module)
    IN IF IsSome(existing)
       THEN [store |-> store, id |-> Unwrap(existing).id, ok |-> TRUE, failed |-> FALSE]
       ELSE [store |-> s2, id |-> module_id, ok |-> ~Failed(fail, 2),
        failed |-> Failed(fail, 2)]

(***************************************************************************)
(* Fact ingestion and graph queries, key-value realization                  *)
(***************************************************************************)
\* mutant: the usr index is written first, the symbol record second
insert_symbol_index_first(store, fail, symbol_id, file_id, usr, key, name, kind, is_def) ==
    LET symbol == [id |-> symbol_id, file_id |-> file_id, usr |-> usr, key |-> key,
                   name |-> name, kind |-> kind, is_definition |-> is_def]
        writes == IF IsSome(usr) THEN 2 ELSE 1
        s1 == IF IsSome(usr) /\ ~Failed(fail, 1)
              THEN sled_insert(store, "symbol_by_usr:" \o Unwrap(usr), symbol_id)
              ELSE store
        s2 == IF Failed(fail, writes) THEN s1
              ELSE sled_insert(s1, "symbol:" \o symbol_id, symbol)
    IN [store |-> s2, id |-> symbol_id, ok |-> ~Failed(fail, writes),
        failed |-> Failed(fail, writes)]

database_insert_symbol(store, fail, symbol_id, file_id, usr, key, name, kind, is_def) ==
    LET symbol == [id |-> symbol_id, file_id |-> file_id, usr |-> usr, key |-> key,
                   name |-> name, kind |-> kind, is_definition |-> is_def]
        s1 == IF Failed(fail, 1) THEN store
              ELSE sled_insert(store, "symbol:" \o symbol_id, symbol)
        s2 == IF IsSome(usr) /\ ~Failed(fail, 2)
              THEN sled_insert(s1, "symbol_by_usr:" \o Unwrap(usr), symbol_id)
              ELSE s1
    IN [store |-> s2, id |-> symbol_id,
        ok |-> ~Failed(fail, IF IsSome(usr) THEN 2 ELSE 1),
        failed |-> Failed(fail, IF IsSome(usr) THEN 2 ELSE 1)]

\* mutant: the record is keyed by the symbol, not by a fresh id
insert_occurrence_keyed_by_symbol(store, fail, occ_id, sym_id, file_id, usage, line, col) ==
    LET occurrence == [id |-> occ_id, symbol_id |-> sym_id, file_id |-> file_id,
                       usage_kind |-> usage, line |-> line, column |-> col]
        s1 == IF Failed(fail, 1) THEN store
              ELSE sled_insert(store, "occurrence:" \o sym_id, occurrence)
    IN [store |-> s1, id |-> occ_id, ok |-> ~Failed(fail, 1),
        failed |-> Failed(fail, 1)]

database_insert_occurrence(store, fail, occ_id, sym_id, file_id, usage, line, col) ==
    LET occurrence == [id |-> occ_id, symbol_id |-> sym_id, file_id |-> file_id,
                       usage_kind |-> usage, line |-> line, column |-> col]
        s1 == IF Failed(fail, 1) THEN store
              ELSE sled_insert(store, "occurrence:" \o occ_id, occurrence)
    IN [store |-> s1, id |-> occ_id, ok |-> ~Failed(fail, 1),
        failed |-> Failed(fail, 1)]

\* mutant: the composite index key ends with the target, not with the edge id
insert_edge_keyed_by_target(store, fail, edge_id, from_sym, to_sym, from_module, to_module, kind) ==
    LET edge == [id |-> edge_id, from_sym |-> from_sym, to_sym |-> to_sym,
                 from_module |-> from_module, to_module |-> to_module, kind |-> kind]
        s1 == sled_insert(store, "edge:" \o edge_id, edge)
        s2 == IF IsSome(from_sym)
              THEN sled_insert(s1, "edges_from:" \o Unwrap(from_sym) \o ":" \o kind
                                       \o ":" \o (IF IsSome(to_sym) THEN Unwrap(to_sym)
                                                  ELSE edge_id), edge)
              ELSE s1
    IN [store |-> s2, id |-> edge_id, ok |-> TRUE, failed |-> FALSE]

database_insert_edge(store, fail, edge_id, from_sym, to_sym, from_module, to_module, kind) ==
    LET edge == [id |-> edge_id, from_sym |-> from_sym, to_sym |-> to_sym,
                 from_module |-> from_module, to_module |-> to_module, kind |-> kind]
        s1 == IF Failed(fail, 1) THEN store
              ELSE sled_insert(store, "edge:" \o edge_id, edge)
        s2 == IF IsSome(from_sym) /\ ~Failed(fail, 2)
              THEN sled_insert(s1, "edges_from:" \o Unwrap(from_sym) \o ":" \o kind
                                       \o ":" \o edge_id, edge)
              ELSE s1
    IN [store |-> s2, id |-> edge_id,
        ok |-> ~Failed(fail, IF IsSome(from_sym) THEN 2 ELSE 1),
        failed |-> Failed(fail, IF IsSome(from_sym) THEN 2 ELSE 1)]

\* mutant: a usr that is not indexed resolves to the first symbol record
find_symbol_by_usr_or_first(store, usr) ==
    IF ("symbol_by_usr:" \o usr) \in DOMAIN store \/ sled_scan_prefix(store, "symbol:") = <<>>
    THEN sled_get(store, "symbol_by_usr:" \o usr)
    ELSE Some(store[Head(sled_scan_prefix(store, "symbol:"))].id)

SymgraphDb_find_symbol_by_usr(store, usr) == sled_get(store, "symbol_by_usr:" \o usr)

RECURSIVE TargetNames(_, _)
TargetNames(store, keys) ==
    IF keys = <<>> THEN <<>>
    ELSE LET edge == store[Head(keys)]
             found == IF IsSome(edge.to_sym)
                      THEN sled_get(store, "symbol:" \o Unwrap(edge.to_sym))
                      ELSE None
         IN (IF IsSome(found) THEN <<Unwrap(found).name>> ELSE <<>>)
            \o TargetNames(store, Tail(keys))

\* mutant: the scanned prefix leaves out the kind
query_edges_from_any_kind(store, kind, from_usr) ==
    LET symbol_id == SymgraphDb_find_symbol_by_usr(store, from_usr)
    IN IF IsSome(symbol_id)
       THEN TargetNames(store, sled_scan_prefix(store,
                "edges_from:" \o Unwrap(symbol_id) \o ":"))
       ELSE <<>>

SymgraphDb_query_edges_by_kind_from(store, kind, from_usr) ==
    LET symbol_id == SymgraphDb_find_symbol_by_usr(store, from_usr)
    IN IF IsSome(symbol_id)
       THEN TargetNames(store, sled_scan_prefix(store,
                "edges_from:" \o Unwrap(symbol_id) \o ":" \o kind \o ":"))
       ELSE <<>>

\* get_stats: the number of keys that each of the three prefix scans yields
SymgraphDb_get_stats(store) ==
    [files |-> Len(sled_scan_prefix(store, "file:")),
     symbols |-> Len(sled_scan_prefix(store, "symbol:")),
     edges |-> Len(sled_scan_prefix(store, "edge:"))]

\* list_files: one FileInfo for every value under a key that starts with
\* file: and deserializes as a File; category and purpose unwrap_or_default
IsFileRecord(v) ==
    DOMAIN v = {"id", "project_id", "module_id", "path", "lang", "category", "purpose"}
SymgraphDb_list_files(store) ==
    LET keys == SelectSeq(sled_scan_prefix(store, "file:"),
                          LAMBDA k : IsFileRecord(store[k]))
    IN [i \in 1..Len(keys) |->
           [id |-> store[keys[i]].id, path |-> store[keys[i]].path,
            language |-> store[keys[i]].lang,
            category |-> IF IsSome(store[keys[i]].category)
                         THEN Unwrap(store[keys[i]].category) ELSE "",
            purpose |-> IF IsSome(store[keys[i]].purpose)
                        THEN Unwrap(store[keys[i]].purpose) ELSE ""]]

(***************************************************************************)
(* load_scip_to_database (scip.rs): one SCIP index into the key-value store *)
(***************************************************************************)
\* Uuid::new_v4() inside the loader: the first fresh label of the pool
FirstFresh(store, pool, ns) ==
    LET fresh == FreshUuids(store, pool, ns)
    IN IF fresh = {} THEN "00"
       ELSE CHOOSE u \in fresh : \A o \in fresh \ {u} : BytesLess(u, o, 1)

\* roles.join(",")
RECURSIVE Join(_, _)
Join(strs, sep) ==
    IF strs = <<>> THEN ""
    ELSE IF Len(strs) = 1 THEN strs[1]
    ELSE strs[1] \o sep \o Join(Tail(strs), sep)

\* u32: the value high * 2^31 + low, kept as the pair of its top bit and its
\* low 31 bits (2^32 is beyond the integers of the model checker)
U32(n) == [high |-> 0, low |-> n]
\* i32 as u32: x for x >= 0, 2^32 + x for x < 0
AsU32(x) == IF x >= 0 THEN [high |-> 0, low |-> x]
            ELSE [high |-> 1, low |-> (x + 2147483647) + 1]

\* HashMap::insert
MapInsert(map, key, value) == (key :> value) @@ map

SymgraphDb_store_scip_document(store, doc_info) ==
    sled_insert(sled_insert(store, "scip_document:" \o doc_info.id, doc_info),
                "scip_document_by_path:" \o doc_info.relative_path, doc_info.id)

SymgraphDb_store_scip_symbol(store, symbol_info) ==
    sled_insert(sled_insert(store, "scip_symbol:" \o symbol_info.id, symbol_info),
                "scip_symbol_by_name:" \o symbol_info.symbol, symbol_info.id)

SymgraphDb_store_scip_occurrence(store, occ_info) ==
    sled_insert(store, "scip_occurrence:" \o occ_info.id, occ_info)

\* first pass: the documents; acc = [store, file_ids, symbol_ids]
RECURSIVE scip_first_pass(_, _, _, _)
scip_first_pass(acc, project_id, documents, n) ==
    IF n > Len(documents) THEN acc
    ELSE LET document == documents[n]
             document_id == FirstFresh(acc.store, ScipDocumentUuids, "scip_document:")
             f == SymgraphDb_ensure_file_with_category(acc.store, 0,
                      FirstFresh(acc.store, FileUuids, "file:"), project_id,
                      document.relative_path, document.language,
                      Some("scip_parsed"), Some("SCIP parsed file"))
             scip_doc_info == [id |-> document_id,
                               relative_path |-> document.relative_path,
                               language |-> document.language,
                               symbol_count |-> document.symbol_count,
                               occurrence_count |-> document.occurrence_count,
                               project_id |-> project_id]
         IN scip_first_pass(
                [acc EXCEPT !.store = SymgraphDb_store_scip_document(f.store, scip_doc_info),
                            !.file_ids = MapInsert(@, document.relative_path, f.id)],
                project_id, documents, n + 1)

\* second pass: the symbols; the map keeps the id of the SCIP record, the id
\* that insert_symbol returns is dropped
RECURSIVE scip_second_pass(_, _, _)
scip_second_pass(acc, scip_data, n) ==
    IF n > Len(scip_data.symbols) THEN acc
    ELSE LET symbol == scip_data.symbols[n]
             symbol_id == FirstFresh(acc.store, ScipSymbolUuids, "scip_symbol:")
             file_id == IF scip_data.documents = <<>> THEN "1"
                        ELSE IF scip_data.documents[1].relative_path \in DOMAIN acc.file_ids
                        THEN acc.file_ids[scip_data.documents[1].relative_path]
                        ELSE "1"
             k == database_insert_symbol(acc.store, 0,
                      FirstFresh(acc.store, SymbolUuids, "symbol:"), file_id,
                      Some(symbol.symbol), None,
                      IF IsSome(symbol.display_name) THEN Unwrap(symbol.display_name)
                      ELSE symbol.symbol,
                      symbol.symbol_kind, TRUE)
             scip_symbol_info == [id |-> symbol_id, symbol |-> symbol.symbol,
                                  documentation |-> symbol.documentation,
                                  display_name |-> symbol.display_name,
                                  symbol_kind |-> symbol.symbol_kind,
                                  file_id |-> file_id,
                                  relationships |-> symbol.relationships]
         IN IF symbol.symbol \in DOMAIN acc.symbol_ids
            THEN scip_second_pass(acc, scip_data, n + 1)
            ELSE scip_second_pass(
                     [acc EXCEPT !.store = SymgraphDb_store_scip_symbol(k.store,
                                               scip_symbol_info),
                                 !.symbol_ids = MapInsert(@, symbol.symbol, symbol_id)],
                     scip_data, n + 1)

\* third pass: the occurrences of the symbols in the map
RECURSIVE scip_third_pass(_, _, _)
scip_third_pass(acc, occurrences, n) ==
    IF n > Len(occurrences) THEN acc
    ELSE LET occurrence == occurrences[n]
             scip_symbol_id == acc.symbol_ids[occurrence.symbol]
             file_id == IF occurrence.document_path \in DOMAIN acc.file_ids
                        THEN acc.file_ids[occurrence.document_path]
                        ELSE "1"
             k == database_insert_occurrence(acc.store, 0,
                      FirstFresh(acc.store, OccurrenceUuids, "occurrence:"),
                      scip_symbol_id, file_id, Join(occurrence.roles, ","),
                      AsU32(occurrence.range.start_line),
                      AsU32(occurrence.range.start_character))
             scip_occ_info == [id |-> FirstFresh(k.store, ScipOccurrenceUuids,
                                                 "scip_occurrence:"),
                               symbol_id |-> scip_symbol_id,
                               document_path |-> occurrence.document_path,
                               range |-> occurrence.range,
                               roles |-> occurrence.roles,
                               syntax_kind |-> occurrence.syntax_kind,
                               file_id |-> file_id]
         IN IF occurrence.symbol \in DOMAIN acc.symbol_ids
            THEN scip_third_pass(
                     [acc EXCEPT !.store = SymgraphDb_store_scip_occurrence(k.store,
                                               scip_occ_info)],
                     occurrences, n + 1)
            ELSE scip_third_pass(acc, occurrences, n + 1)

\* fourth pass: the relationships between symbols of the map
RECURSIVE scip_relationships(_, _, _, _)
scip_relationships(acc, from_scip_id, relationships, n) ==
    IF n > Len(relationships) THEN acc
    ELSE LET relationship == relationships[n]
             k == database_insert_edge(acc.store, 0,
                      FirstFresh(acc.store, EdgeUuids, "edge:"),
                      Some(from_scip_id), Some(acc.symbol_ids[relationship.target_symbol]),
                      None, None, relationship.kind)
         IN IF relationship.target_symbol \in DOMAIN acc.symbol_ids
            THEN scip_relationships([acc EXCEPT !.store = k.store], from_scip_id,
                                    relationships, n + 1)
            ELSE scip_relationships(acc, from_scip_id, relationships, n + 1)

RECURSIVE scip_fourth_pass(_, _, _)
scip_fourth_pass(acc, symbols, n) ==
    IF n > Len(symbols) THEN acc
    ELSE IF symbols[n].symbol \in DOMAIN acc.symbol_ids
    THEN scip_fourth_pass(scip_relationships(acc, acc.symbol_ids[symbols[n].symbol],
                                             symbols[n].relationships, 1),
                          symbols, n + 1)
    ELSE scip_fourth_pass(acc, symbols, n + 1)

scip_load_scip_to_database(store, project_uuid, created_at, scip_data, project_name) ==
    LET unknown_root == "file:///unknown"
        project_root == IF scip_data.metadata.project_roots = <<>> THEN unknown_root
                        ELSE scip_data.metadata.project_roots[1]
        p == SymgraphDb_ensure_project(store, 0, project_uuid, created_at, project_name,
                                       project_root)
        a1 == scip_first_pass([store |-> p.store, file_ids |-> << >>, symbol_ids |-> << >>],
                              p.id, scip_data.documents, 1)
        a2 == scip_second_pass(a1, scip_data, 1)
        a3 == scip_third_pass(a2, scip_data.occurrences, 1)
        a4 == scip_fourth_pass(a3, scip_data.symbols, 1)
    IN a4.store

(***************************************************************************)
(* Identity layer, relational realization                                   *)
(***************************************************************************)
\* schema.sql: files.path is unique
schema_files_conflict(files, row) == \E i \in 1..Len(files) : files[i].path = row.path

Db_ensure_file(c, path, lang) ==
    LET row == [path |-> path, lang |-> lang]
        c2 == IF schema_files_conflict(c.files, row) THEN c
              ELSE [c EXCEPT !.files = Append(@, row)]
    IN [conn |-> c2,
        id |-> CHOOSE i \in 1..Len(c2.files) : c2.files[i].path = path]

\* schema.sql: modules.name is unique
schema_modules_conflict(modules, row) == \E i \in 1..Len(modules) : modules[i].name = row.name

\* mutant: a plain INSERT, the id of the new row is returned
lib_upsert_module_plain_insert(c, name, kind, path) ==
    [conn |-> [c EXCEPT !.modules = Append(@, [name |-> name, kind |-> kind, path |-> path])],
     id |-> Len(c.modules) + 1]

lib_upsert_module(c, name, kind, path) ==
    LET row == [name |-> name, kind |-> kind, path |-> path]
        c2 == IF schema_modules_conflict(c.modules, row) THEN c
              ELSE [c EXCEPT !.modules = Append(@, row)]
    IN [conn |-> c2,
        id |-> CHOOSE i \in 1..Len(c2.modules) : c2.modules[i].name = name]

(***************************************************************************)
(* Fact ingestion and graph queries, relational realization                 *)
(***************************************************************************)
\* schema.sql: no uniqueness constraint on symbols.usr
schema_symbols_conflict(symbols, row) == FALSE

lib_insert_symbol(c, file_id, usr, key, name, kind, is_def) ==
    LET row == [file_id |-> file_id, usr |-> usr, key |-> key, name |-> name,
                kind |-> kind, is_definition |-> IF is_def THEN 1 ELSE 0]
    IN [conn |-> [c EXCEPT !.symbols = Append(@, row)], id |-> Len(c.symbols) + 1]

\* schema.sql: the occurrences table takes any symbol_id and file_id
schema_occurrences_check(c, row) == TRUE

lib_insert_occurrence(c, sym_id, file_id, usage, line, col) ==
    LET row == [symbol_id |-> sym_id, file_id |-> file_id, usage_kind |-> usage,
                line |-> line, column |-> col]
    IN IF schema_occurrences_check(c, row)
       THEN [conn |-> [c EXCEPT !.occurrences = Append(@, row)],
             id |-> Len(c.occurrences) + 1, ok |-> TRUE]
       ELSE [conn |-> c, id |-> 0, ok |-> FALSE]

\* mutant: a CHECK constraint admits a symbol pair or a module pair only
edges_check_pairs_only(c, row) ==
    \/ IsSome(row.from_sym) /\ IsSome(row.to_sym)
          /\ ~IsSome(row.from_module) /\ ~IsSome(row.to_module)
    \/ IsSome(row.from_module) /\ IsSome(row.to_module)
          /\ ~IsSome(row.from_sym) /\ ~IsSome(row.to_sym)

\* schema.sql: the edges table takes any combination of endpoints, NULL included
schema_edges_check(c, row) == TRUE

\* mutant: an absent endpoint is stored as 0, not as NULL
lib_insert_edge_zero_for_null(c, from_sym, to_sym, from_module, to_module, kind) ==
    LET zero(o) == IF IsSome(o) THEN o ELSE Some(0)
        row == [from_sym |-> zero(from_sym), to_sym |-> zero(to_sym),
                from_module |-> zero(from_module), to_module |-> zero(to_module),
                kind |-> kind]
    IN [conn |-> [c EXCEPT !.edges = Append(@, row)], id |-> Len(c.edges) + 1, ok |-> TRUE]

lib_insert_edge(c, from_sym, to_sym, from_module, to_module, kind) ==
    LET row == [from_sym |-> from_sym, to_sym |-> to_sym,
                from_module |-> from_module, to_module |-> to_module, kind |-> kind]
    IN IF schema_edges_check(c, row)
       THEN [conn |-> [c EXCEPT !.edges = Append(@, row)], id |-> Len(c.edges) + 1,
             ok |-> TRUE]
       ELSE [conn |-> c, id |-> 0, ok |-> FALSE]

\* SELECT id FROM symbols WHERE usr=?1, first row: SQLite walks the table (or
\* an index on usr) in rowid order, so the first row is the oldest symbol
Db_find_symbol_by_usr(c, usr) ==
    LET rows == {i \in 1..Len(c.symbols) : c.symbols[i].usr = Some(usr)}
    IN IF rows = {} THEN None
       ELSE Some(CHOOSE i \in rows : \A j \in rows : i <= j)

\* edges JOIN symbols s1 ON s1.id=e.from_sym JOIN symbols s2 ON s2.id=e.to_sym
RECURSIVE JoinNames(_, _, _, _)
JoinNames(c, kind, from_usr, e) ==
    IF e > Len(c.edges) THEN <<>>
    ELSE LET edge == c.edges[e]
             joins == /\ edge.kind = kind
                      /\ IsSome(edge.from_sym) /\ Unwrap(edge.from_sym) \in 1..Len(c.symbols)
                      /\ IsSome(edge.to_sym) /\ Unwrap(edge.to_sym) \in 1..Len(c.symbols)
                      /\ c.symbols[Unwrap(edge.from_sym)].usr = Some(from_usr)
         IN (IF joins THEN <<c.symbols[Unwrap(edge.to_sym)].name>> ELSE <<>>)
            \o JoinNames(c, kind, from_usr, e + 1)

\* mutant: a LEFT JOIN on the target, an edge without a target row gives NULL
Db_query_edges_left_join(c, kind, from_usr) ==
    LET matches(e) ==
            /\ c.edges[e].kind = kind
            /\ IsSome(c.edges[e].from_sym)
            /\ Unwrap(c.edges[e].from_sym) \in 1..Len(c.symbols)
            /\ c.symbols[Unwrap(c.edges[e].from_sym)].usr = Some(from_usr)
        rows == SelectSeq([e \in 1..Len(c.edges) |-> e], matches)
    IN [i \in 1..Len(rows) |->
           LET to_sym == c.edges[rows[i]].to_sym
           IN IF IsSome(to_sym) /\ Unwrap(to_sym) \in 1..Len(c.symbols)
              THEN c.symbols[Unwrap(to_sym)].name
              ELSE "NULL"]

Db_query_edges_by_kind_from(c, kind, from_usr) == JoinNames(c, kind, from_usr, 1)

(***************************************************************************)
(* Workers that share one sled store (sled::Db is a cloneable handle) and   *)
(* call ensure_file / upsert_module without a lock around the call: every   *)
(* db.get and db.insert of a call is a step of its own.                     *)
(***************************************************************************)
Workers == {1, 2}
Idle == [pc |-> "idle", op |-> "", arg |-> "", id |-> "", calls |-> 0,
         returned |-> None, saw_absent |-> FALSE]

\* format!("file:{}", path) / format!("module:{}", name)
worker_namespace(op) == IF op = "ensure_file" THEN "file:" ELSE "module:"
\* the File that ensure_file(path, "c++") builds, the Module that
\* upsert_module(name, "cpp20-module", "") builds
worker_record(op, arg, id) ==
    IF op = "ensure_file"
    THEN [id |-> id, project_id |-> "1", module_id |-> None, path |-> arg,
          lang |-> "c++", category |-> None, purpose |-> None]
    ELSE [id |-> id, project_id |-> "1", name |-> arg, kind |-> "cpp20-module",
          path |-> None]

\* mutant: the record is inserted only if the key is still absent, and the
\* call goes on with the id of the record it finds
ensure_insert_key_if_absent(store, key, record) ==
    IF key \in DOMAIN store THEN [store |-> store, id |-> store[key].id]
    ELSE [store |-> sled_insert(store, key, record), id |-> record.id]

\* db.insert(&key, value.clone())?: whatever is under the key is overwritten
ensure_insert_key(store, key, record) ==
    [store |-> sled_insert(store, key, record), id |-> record.id]

\* db.insert(format!("file:{}", file.id), value)?
ensure_insert_id(store, ns, record) == sled_insert(store, ns \o record.id, record)

\* the uuids that the calls in progress hold
HeldUuids == {workers[w].id : w \in {v \in Workers : workers[v].pc # "idle"}}

(***************************************************************************)
(* The state after opening two empty stores                                 *)
(***************************************************************************)
NoRet == [op |-> "open", arg |-> "", kind |-> "", args |-> <<>>, err |-> FALSE, fault |-> 0,
          kvId |-> None, dbId |-> None, kvNames |-> <<>>, dbNames |-> <<>>]

Init ==
    /\ sled = << >>
    /\ conn = [files |-> <<>>, modules |-> <<>>, symbols |-> <<>>, occurrences |-> <<>>,
               edges |-> <<>>]
    /\ ret = NoRet
    /\ firstFile = << >>
    /\ firstModule = << >>
    /\ firstProject = << >>
    /\ symLog = <<>>
    /\ edgeLog = <<>>
    /\ occLog = <<>>
    /\ failLog = <<>>
    /\ workers = [w \in Workers |-> Idle]

IssuedFileIds == {sled[k].id : k \in {x \in DOMAIN sled : IsPrefix("file:", x)}}
IssuedModuleIds == {sled[k].id : k \in {x \in DOMAIN sled : IsPrefix("module:", x)}}
IssuedProjectIds == {sled[k].id : k \in {x \in DOMAIN sled : IsPrefix("project:", x)}}

Remember(hist, key, value) == IF key \in DOMAIN hist THEN hist ELSE hist @@ (key :> value)

\* Uuid::new_v4(): any fresh label may come.  Which one comes shows only in
\* the order in which sled_scan_prefix walks the keys; an operation whose
\* result is compared up to that order draws the first fresh label.
\* DroppedUuid stands for a uuid that is generated and dropped because the
\* record exists already.
DroppedUuid == "00"
NewUuids(store, pool, ns) ==
    LET fresh == FreshUuids(store, pool, ns)
    IN IF fresh = {} THEN {DroppedUuid}
       ELSE {CHOOSE u \in fresh : \A o \in fresh \ {u} : BytesLess(u, o, 1)}

\* the facts inserted and the calls that failed, together
FactCount == Len(symLog) + Len(edgeLog) + Len(occLog) + Len(failLog)

\* a call is made with fail = 0, or with the write at which the store fails;
\* a failure is taken only where the call does make that write
Fault(fail, result) ==
    /\ fail # 0 => result.failed /\ Len(failLog) < MaxFaults /\ FactCount < MaxFacts
\* what a call that returned the error leaves: the writes it made before the
\* failing one; the relational store is not called
Fails(op, arg, fail, result) ==
    /\ sled' = result.store
    /\ ret' = [NoRet EXCEPT !.op = op, !.arg = arg, !.err = TRUE, !.fault = fail]
    /\ failLog' = Append(failLog, [op |-> op, arg |-> arg, wrote |-> fail - 1,
                                   id |-> result.id])
    /\ UNCHANGED <<conn, firstFile, firstModule, firstProject, symLog, edgeLog, occLog,
                   workers>>

(***************************************************************************)
(* Actions of the identity layer                                            *)
(***************************************************************************)
EnsureFile(fail, project_id, path, lang, category, purpose) ==
    /\ FreshUuids(sled, FileUuids, "file:") # {} \/ ("file:" \o path) \in DOMAIN sled
    /\ \E file_id \in NewUuids(sled, FileUuids, "file:") :
         LET k == SymgraphDb_ensure_file_with_category(sled, fail, file_id, project_id, path,
                                                       lang, category, purpose)
             d == Db_ensure_file(conn, path, lang)
         IN /\ Fault(fail, k)
            /\ IF k.ok
               THEN /\ sled' = k.store
                    /\ conn' = d.conn
                    /\ ret' = [NoRet EXCEPT !.fault = fail, !.op = "ensure_file", !.arg = path,
                                    !.args = <<project_id, path, lang, category, purpose>>,
                                    !.kvId = Some(k.id), !.dbId = Some(d.id)]
                    /\ firstFile' = Remember(firstFile, path,
                               [kv |-> k.id, db |-> d.id, project_id |-> project_id,
                                lang |-> lang, category |-> category, purpose |-> purpose])
                    /\ UNCHANGED <<firstModule, firstProject, symLog, edgeLog, occLog, failLog, workers>>
               ELSE Fails("ensure_file", path, fail, k)

UpsertModule(fail, name, kind, path) ==
    /\ FreshUuids(sled, ModuleUuids, "module:") # {} \/ ("module:" \o name) \in DOMAIN sled
    /\ \E module_id \in NewUuids(sled, ModuleUuids, "module:") :
         LET k == database_upsert_module(sled, fail, module_id, name, kind, path)
             d == lib_upsert_module(conn, name, kind, path)
         IN /\ Fault(fail, k)
            /\ IF k.ok
               THEN /\ sled' = k.store
                    /\ conn' = d.conn
                    /\ ret' = [NoRet EXCEPT !.fault = fail, !.op = "upsert_module", !.arg = name,
                                    !.args = <<name, kind, path>>,
                                    !.kvId = Some(k.id), !.dbId = Some(d.id)]
                    /\ firstModule' = Remember(firstModule, name,
                                 [kv |-> k.id, db |-> d.id, kind |-> kind, path |-> path])
                    /\ UNCHANGED <<firstFile, firstProject, symLog, edgeLog, occLog, failLog, workers>>
               ELSE Fails("upsert_module", name, fail, k)

EnsureProject(fail, name, root_path) ==
    /\ FreshUuids(sled, ProjectUuids, "project:") # {} \/ ("project:" \o root_path) \in DOMAIN sled
    /\ \E project_id \in NewUuids(sled, ProjectUuids, "project:"), created_at \in Clock :
         LET k == SymgraphDb_ensure_project(sled, fail, project_id, created_at, name, root_path)
         IN /\ Fault(fail, k)
            /\ IF k.ok
               THEN /\ sled' = k.store
                    /\ ret' = [NoRet EXCEPT !.fault = fail, !.op = "ensure_project", !.arg = root_path,
                                    !.args = <<name, root_path>>,
                                    !.kvId = Some(k.id)]
                    /\ firstProject' = Remember(firstProject, root_path,
                                  [kv |-> k.id, name |-> name])
                    /\ UNCHANGED <<conn, firstFile, firstModule, symLog, edgeLog, occLog,
                                   failLog, workers>>
               ELSE Fails("ensure_project", root_path, fail, k)

\* the annotation pass: ensure_project(name, root_path) gave project_id, and
\* the annotation is written under it
UpdateProjectAnnotation(root_path, annotation) ==
    /\ root_path \in DOMAIN firstProject
    /\ sled' = SymgraphDb_update_project_annotation(sled, firstProject[root_path].kv,
                   annotation.description, annotation.purpose, annotation.structure,
                   annotation.dependencies)
    /\ ret' = [NoRet EXCEPT !.op = "update_project_annotation", !.arg = root_path,
                    !.args = <<annotation.description, annotation.purpose,
                               annotation.structure, annotation.dependencies>>,
                    !.kvId = Some(firstProject[root_path].kv)]
    /\ UNCHANGED <<conn, firstFile, firstModule, firstProject, symLog, edgeLog, occLog,
                   failLog, workers>>

(***************************************************************************)
(* Actions of the ingestion API and of the query engine                     *)
(***************************************************************************)
\* file is the path of a file ensured earlier; each store gets its own id of it
InsertSymbol(fail, file, usr, key, name, kind, is_def) ==
    /\ FactCount < MaxFacts
    /\ file \in DOMAIN firstFile
    /\ FreshUuids(sled, SymbolUuids, "symbol:") # {}
    /\ \E symbol_id \in NewUuids(sled, SymbolUuids, "symbol:") :
         LET k == database_insert_symbol(sled, fail, symbol_id, firstFile[file].kv, usr, key,
                                         name, kind, is_def)
             d == lib_insert_symbol(conn, firstFile[file].db, usr, key, name, kind, is_def)
         IN /\ Fault(fail, k)
            /\ IF k.ok
               THEN /\ sled' = k.store
                    /\ conn' = d.conn
                    /\ ret' = [NoRet EXCEPT !.fault = fail, !.op = "insert_symbol",
                                    !.arg = IF IsSome(usr) THEN Unwrap(usr) ELSE "",
                                    !.kvId = Some(k.id), !.dbId = Some(d.id)]
                    /\ symLog' = Append(symLog, [kv |-> k.id, db |-> d.id, usr |-> usr,
                                                 name |-> name])
                    /\ UNCHANGED <<firstFile, firstModule, firstProject, edgeLog, occLog,
                                   failLog, workers>>
               ELSE Fails("insert_symbol", IF IsSome(usr) THEN Unwrap(usr) ELSE "", fail, k)

\* from_sym, to_sym: Option of an index of symLog, or of NoSymbol for an id
\* that no insert_symbol call returned (insert_edge takes any id)
NoSymbol == 0
KvSym(h) == IF ~IsSome(h) THEN None
            ELSE IF Unwrap(h) = NoSymbol THEN Some("s0")
            ELSE Some(symLog[Unwrap(h)].kv)
DbSym(h) == IF ~IsSome(h) THEN None
            ELSE IF Unwrap(h) = NoSymbol THEN Some(0)
            ELSE Some(symLog[Unwrap(h)].db)
\* from_module, to_module: Option of the name of a module upserted earlier
KvMod(h) == IF IsSome(h) THEN Some(firstModule[Unwrap(h)].kv) ELSE None
DbMod(h) == IF IsSome(h) THEN Some(firstModule[Unwrap(h)].db) ELSE None

\* sym is an index of symLog, file the path of a file ensured earlier; line
\* and col are u32 values below 2^31
InsertOccurrence(fail, sym, file, usage, line, col) ==
    /\ FactCount < MaxFacts
    /\ sym \in 1..Len(symLog)
    /\ file \in DOMAIN firstFile
    /\ FreshUuids(sled, OccurrenceUuids, "occurrence:") # {}
    /\ \E occ_id \in NewUuids(sled, OccurrenceUuids, "occurrence:") :
         LET k == database_insert_occurrence(sled, fail, occ_id, symLog[sym].kv,
                                             firstFile[file].kv, usage, U32(line), U32(col))
             d == lib_insert_occurrence(conn, symLog[sym].db, firstFile[file].db,
                                        usage, U32(line), U32(col))
         IN /\ Fault(fail, k)
            /\ IF k.ok
               THEN /\ sled' = k.store
                    /\ conn' = d.conn
                    /\ ret' = [NoRet EXCEPT !.fault = fail, !.op = "insert_occurrence", !.kind = usage,
                                    !.kvId = Some(k.id),
                                    !.dbId = IF d.ok THEN Some(d.id) ELSE None]
                    /\ occLog' = Append(occLog, [sym |-> sym, file |-> file, usage |-> usage,
                                                 line |-> line, col |-> col,
                                                 kv |-> k.id, db |-> d.id])
                    /\ UNCHANGED <<firstFile, firstModule, firstProject, symLog, edgeLog,
                                   failLog, workers>>
               ELSE Fails("insert_occurrence", usage, fail, k)

InsertEdge(fail, edge_id, from_sym, to_sym, from_module, to_module, kind) ==
    /\ FactCount < MaxFacts
    /\ edge_id \in FreshUuids(sled, EdgeUuids, "edge:")
    /\ \A h \in {from_sym, to_sym} : IsSome(h) => Unwrap(h) \in {NoSymbol} \cup 1..Len(symLog)
    /\ \A h \in {from_module, to_module} : IsSome(h) => Unwrap(h) \in DOMAIN firstModule
    /\ LET k == database_insert_edge(sled, fail, edge_id, KvSym(from_sym), KvSym(to_sym),
                                     KvMod(from_module), KvMod(to_module), kind)
           d == lib_insert_edge(conn, DbSym(from_sym), DbSym(to_sym),
                                DbMod(from_module), DbMod(to_module), kind)
       IN /\ Fault(fail, k)
          /\ IF k.ok
             THEN /\ sled' = k.store
                  /\ conn' = d.conn
                  /\ ret' = [NoRet EXCEPT !.fault = fail, !.op = "insert_edge", !.kind = kind,
                                  !.kvId = Some(k.id),
                                  !.dbId = IF d.ok THEN Some(d.id) ELSE None]
                  /\ edgeLog' = Append(edgeLog, [from_sym |-> from_sym, to_sym |-> to_sym,
                                         from_module |-> from_module,
                                         to_module |-> to_module,
                                         kind |-> kind, kv |-> k.id, db |-> d.id])
                  /\ UNCHANGED <<firstFile, firstModule, firstProject, symLog, occLog,
                                 failLog, workers>>
             ELSE Fails("insert_edge", kind, fail, k)

\* parse_lsif_and_insert: the 0-based start of an LSIF range, made 1-based
LsifOccurrence(start_line, start_char) ==
    InsertOccurrence(0, 1, "a.cpp", "reference", start_line + 1, start_char + 1)

FindSymbolByUsr(usr) ==
    /\ ret' = [NoRet EXCEPT !.op = "find_symbol_by_usr", !.arg = usr,
                            !.kvId = SymgraphDb_find_symbol_by_usr(sled, usr),
                            !.dbId = Db_find_symbol_by_usr(conn, usr)]
    /\ UNCHANGED <<sled, conn, firstFile, firstModule, firstProject, symLog, edgeLog,
                   occLog, failLog, workers>>

\* mutant: the key-value query walks the primary edge records
QueryEdgesByPrimaryScan(kind, from_usr) ==
    /\ LET symbol_id == SymgraphDb_find_symbol_by_usr(sled, from_usr)
           keys == SelectSeq(sled_scan_prefix(sled, "edge:"),
                             LAMBDA k : sled[k].kind = kind /\ sled[k].from_sym = symbol_id)
       IN ret' = [NoRet EXCEPT !.op = "query_edges_by_kind_from", !.arg = from_usr,
                            !.kind = kind,
                            !.kvNames = IF IsSome(symbol_id) THEN TargetNames(sled, keys)
                                        ELSE <<>>,
                            !.dbNames = Db_query_edges_by_kind_from(conn, kind, from_usr)]
    /\ UNCHANGED <<sled, conn, firstFile, firstModule, firstProject, symLog, edgeLog,
                   occLog, failLog, workers>>

QueryEdgesByKindFrom(kind, from_usr) ==
    /\ ret' = [NoRet EXCEPT !.op = "query_edges_by_kind_from", !.arg = from_usr,
                            !.kind = kind,
                            !.kvNames = SymgraphDb_query_edges_by_kind_from(sled, kind, from_usr),
                            !.dbNames = Db_query_edges_by_kind_from(conn, kind, from_usr)]
    /\ UNCHANGED <<sled, conn, firstFile, firstModule, firstProject, symLog, edgeLog,
                   occLog, failLog, workers>>

\* the read-only reports of the key-value store
GetStats ==
    /\ ret' = [NoRet EXCEPT !.op = "get_stats",
                    !.args = <<SymgraphDb_get_stats(sled).files,
                               SymgraphDb_get_stats(sled).symbols,
                               SymgraphDb_get_stats(sled).edges>>]
    /\ UNCHANGED <<sled, conn, firstFile, firstModule, firstProject, symLog, edgeLog,
                   occLog, failLog, workers>>

ListFiles ==
    /\ ret' = [NoRet EXCEPT !.op = "list_files",
                    !.kvNames = [i \in 1..Len(SymgraphDb_list_files(sled)) |->
                                    SymgraphDb_list_files(sled)[i].path]]
    /\ UNCHANGED <<sled, conn, firstFile, firstModule, firstProject, symLog, edgeLog,
                   occLog, failLog, workers>>

\* the record namespaces whose keys end with a generated uuid
UuidNamespaces == {"project:", "file:", "module:", "symbol:", "occurrence:", "edge:",
                   "scip_document:", "scip_symbol:", "scip_occurrence:"}

\* load_scip_to_database takes a SymgraphDb: the relational store is not called
LoadScip(scip_data, project_name) ==
    /\ Cardinality({k \in DOMAIN sled : IsPrefix("scip_symbol:", k)}) <= MaxScip
    /\ \E project_uuid \in NewUuids(sled, ProjectUuids, "project:"), created_at \in Clock :
         LET loaded == scip_load_scip_to_database(sled, project_uuid, created_at,
                                                  scip_data, project_name)
         IN /\ \A ns \in UuidNamespaces : (ns \o DroppedUuid) \notin DOMAIN loaded
            /\ sled' = loaded
            /\ ret' = [NoRet EXCEPT !.op = "load_scip_to_database", !.arg = project_name]
    /\ UNCHANGED <<conn, firstFile, firstModule, firstProject, symLog, edgeLog, occLog,
                   failLog, workers>>

(***************************************************************************)
(* import_modules (main.rs): one module interface file                      *)
(***************************************************************************)
\* for imp in mi.imports: the placeholder of the imported module, the edge;
\* acc = [store, conn, modules, edges], mid the ids of the importing module
RECURSIVE import_modules_imports(_, _, _, _)
import_modules_imports(acc, mid, imports, n) ==
    IF n > Len(imports) THEN acc
    ELSE LET imp == imports[n]
             k == database_upsert_module(acc.store, 0,
                      FirstFresh(acc.store, ModuleUuids, "module:"), imp, "cpp20-module", "")
             d == lib_upsert_module(acc.conn, imp, "cpp20-module", "")
             ke == database_insert_edge(k.store, 0, FirstFresh(k.store, EdgeUuids, "edge:"),
                                        None, None, Some(mid.kv), Some(k.id), "module-import")
             de == lib_insert_edge(d.conn, None, None, Some(mid.db), Some(d.id),
                                   "module-import")
         IN import_modules_imports(
                [store |-> ke.store, conn |-> de.conn,
                 modules |-> Remember(acc.modules, imp,
                                 [kv |-> k.id, db |-> d.id, kind |-> "cpp20-module",
                                  path |-> ""]),
                 edges |-> Append(acc.edges,
                                  [from_sym |-> None, to_sym |-> None,
                                   from_module |-> Some(mid.name), to_module |-> Some(imp),
                                   kind |-> "module-import", kv |-> ke.id, db |-> de.id])],
                mid, imports, n + 1)

ImportModules(mi) ==
    /\ FactCount + Len(mi.imports) <= MaxFacts
    /\ LET k == database_upsert_module(sled, 0, FirstFresh(sled, ModuleUuids, "module:"),
                                       mi.name, "cpp20-module", mi.path)
           d == lib_upsert_module(conn, mi.name, "cpp20-module", mi.path)
           kf == SymgraphDb_ensure_file_with_category(k.store, 0,
                     FirstFresh(k.store, FileUuids, "file:"), "1", mi.path, "c++", None, None)
           df == Db_ensure_file(d.conn, mi.path, "c++")
           acc == import_modules_imports(
                      [store |-> kf.store, conn |-> df.conn,
                       modules |-> Remember(firstModule, mi.name,
                                       [kv |-> k.id, db |-> d.id, kind |-> "cpp20-module",
                                        path |-> mi.path]),
                       edges |-> edgeLog],
                      [kv |-> k.id, db |-> d.id, name |-> mi.name], mi.imports, 1)
       IN /\ \A ns \in UuidNamespaces : (ns \o DroppedUuid) \notin DOMAIN acc.store
          /\ sled' = acc.store
          /\ conn' = acc.conn
          /\ firstModule' = acc.modules
          /\ edgeLog' = acc.edges
          /\ firstFile' = Remember(firstFile, mi.path,
                               [kv |-> kf.id, db |-> df.id, project_id |-> "1",
                                lang |-> "c++", category |-> None, purpose |-> None])
          /\ ret' = [NoRet EXCEPT !.op = "import_modules", !.arg = mi.name,
                                  !.args = mi.imports,
                                  !.kvId = Some(k.id), !.dbId = Some(d.id)]
    /\ UNCHANGED <<firstProject, symLog, occLog, failLog, workers>>

(***************************************************************************)
(* The Rust source scanner (rust_analyzer.rs, main.rs)                      *)
(***************************************************************************)
\* let usr = format!("r:@{}@{}", crate_name, sym), "r:@workspace@{}" in an
\* extra directory
rust_usr(src, sym) ==
    "r:@" \o (IF src.extra_dir THEN "workspace" ELSE src.crate_name) \o "@" \o sym
rust_kind(src, sym) ==
    IF ~src.extra_dir /\ IsPrefix("impl_", sym) THEN "impl" ELSE "function"

\* mutant: the symbol is inserted whether or not its usr is known
scan_symbol_unguarded(acc, fail, src, fid, sym) ==
    LET usr == rust_usr(src, sym)
        k == database_insert_symbol(acc.store, IF acc.inserted = 0 THEN fail ELSE 0,
                 FirstFresh(acc.store, SymbolUuids, "symbol:"), fid.kv, Some(usr), None,
                 sym, rust_kind(src, sym), TRUE)
        d == lib_insert_symbol(acc.conn, fid.db, Some(usr), None, sym, rust_kind(src, sym),
                               TRUE)
    IN [acc EXCEPT !.store = k.store, !.conn = d.conn, !.inserted = @ + 1,
                   !.syms = Append(@, [kv |-> k.id, db |-> d.id, usr |-> Some(usr),
                                       name |-> sym])]

\* one symbol of the file: if db.find_symbol_by_usr(&usr)?.is_none() then
\* insert_symbol(...)?; an error ends the scan. fail is the write at which
\* the store fails in the first insert_symbol call of the scan.
\* acc = [store, conn, syms, edges, fails, failed, inserted]
scan_symbol(acc, fail, src, fid, sym) ==
    LET usr == rust_usr(src, sym)
        k == database_insert_symbol(acc.store, IF acc.inserted = 0 THEN fail ELSE 0,
                 FirstFresh(acc.store, SymbolUuids, "symbol:"), fid.kv, Some(usr), None,
                 sym, rust_kind(src, sym), TRUE)
        d == lib_insert_symbol(acc.conn, fid.db, Some(usr), None, sym, rust_kind(src, sym),
                               TRUE)
    IN IF acc.failed \/ IsSome(SymgraphDb_find_symbol_by_usr(acc.store, usr)) THEN acc
       ELSE IF k.failed
       THEN [acc EXCEPT !.store = k.store, !.failed = TRUE, !.inserted = @ + 1,
                        !.fails = Append(@, [op |-> "insert_symbol", arg |-> usr,
                                             wrote |-> fail - 1, id |-> k.id])]
       ELSE [acc EXCEPT !.store = k.store, !.inserted = @ + 1,
                        !.conn = IF IsSome(Db_find_symbol_by_usr(acc.conn, usr))
                                 THEN acc.conn ELSE d.conn,
                        !.syms = Append(@, [kv |-> k.id, db |-> d.id, usr |-> Some(usr),
                                            name |-> sym])]

RECURSIVE scan_symbols(_, _, _, _, _)
scan_symbols(acc, fail, src, fid, n) ==
    IF n > Len(src.symbols) THEN acc
    ELSE scan_symbols(scan_symbol(acc, fail, src, fid, src.symbols[n]), fail, src, fid,
                      n + 1)

\* the place in the log of the symbol that the key-value store holds under the id
LoggedAs(syms, id) == CHOOSE i \in 1..Len(syms) : syms[i].kv = id

\* the call edges: both names are functions of the scanned files and both
\* usrs resolve
RECURSIVE scan_calls(_, _, _)
scan_calls(acc, src, n) ==
    IF n > Len(src.calls) THEN acc
    ELSE LET cu == rust_usr(src, src.calls[n][1])
             du == rust_usr(src, src.calls[n][2])
             cs == SymgraphDb_find_symbol_by_usr(acc.store, cu)
             ds == SymgraphDb_find_symbol_by_usr(acc.store, du)
             k == database_insert_edge(acc.store, 0,
                      FirstFresh(acc.store, EdgeUuids, "edge:"), cs, ds, None, None, "call")
             d == lib_insert_edge(acc.conn, Db_find_symbol_by_usr(acc.conn, cu),
                                  Db_find_symbol_by_usr(acc.conn, du), None, None, "call")
         IN IF /\ {src.calls[n][1], src.calls[n][2]} \subseteq Range(src.symbols)
               /\ IsSome(cs) /\ IsSome(ds)
            THEN scan_calls(
                     [acc EXCEPT !.store = k.store, !.conn = d.conn,
                                 !.edges = Append(@,
                                     [from_sym |-> Some(LoggedAs(acc.syms, Unwrap(cs))),
                                      to_sym |-> Some(LoggedAs(acc.syms, Unwrap(ds))),
                                      from_module |-> None, to_module |-> None,
                                      kind |-> "call", kv |-> k.id, db |-> d.id])],
                     src, n + 1)
            ELSE scan_calls(acc, src, n + 1)

\* process_rust_package / process_workspace_extra_dir over one source file
ScanRust(fail, src) ==
    /\ fail # 0 => Len(failLog) < MaxFaults
    /\ LET kf == SymgraphDb_ensure_file_with_category(sled, 0,
                     FirstFresh(sled, FileUuids, "file:"), "1", src.path, "rust",
                     Some("source"), Some("Source code"))
           df == Db_ensure_file(conn, src.path, "rust")
           a1 == scan_symbols([store |-> kf.store, conn |-> df.conn, syms |-> symLog,
                               edges |-> edgeLog, fails |-> failLog, failed |-> FALSE,
                               inserted |-> 0],
                              fail, src, [kv |-> kf.id, db |-> df.id], 1)
           acc == IF a1.failed THEN a1 ELSE scan_calls(a1, src, 1)
       IN /\ fail # 0 => acc.failed
          /\ Len(acc.syms) + Len(acc.edges) + Len(occLog) + Len(acc.fails) <= MaxFacts
          /\ \A ns \in UuidNamespaces : (ns \o DroppedUuid) \notin DOMAIN acc.store
          /\ sled' = acc.store
          /\ conn' = acc.conn
          /\ symLog' = acc.syms
          /\ edgeLog' = acc.edges
          /\ failLog' = acc.fails
          /\ firstFile' = Remember(firstFile, src.path,
                               [kv |-> kf.id, db |-> df.id, project_id |-> "1",
                                lang |-> "rust", category |-> Some("source"),
                                purpose |-> Some("Source code")])
          /\ ret' = [NoRet EXCEPT !.op = "process_rust_package",
                                  !.arg = IF src.extra_dir THEN "workspace"
                                          ELSE src.crate_name,
                                  !.args = src.symbols, !.err = acc.failed,
                                  !.fault = fail]
    /\ UNCHANGED <<firstModule, firstProject, occLog, workers>>

(***************************************************************************)
(* Steps of a worker                                                        *)
(***************************************************************************)
\* if let Some(existing) = db.get(&key)? { Ok(existing.id) } else { ... }
WorkerLookup(w, op, arg) ==
    /\ workers[w].pc = "idle" /\ workers[w].calls < MaxCalls
    /\ LET ns == worker_namespace(op)
           existing == sled_get(sled, ns \o arg)
           fresh == FreshUuids(sled, IF op = "ensure_file" THEN FileUuids ELSE ModuleUuids,
                               ns) \ HeldUuids
       IN IF IsSome(existing)
          THEN workers' = [workers EXCEPT ![w] =
                              [pc |-> "idle", op |-> op, arg |-> arg, id |-> "",
                               calls |-> @.calls + 1,
                               returned |-> Some(Unwrap(existing).id),
                               saw_absent |-> FALSE]]
          ELSE /\ fresh # {}
               /\ workers' = [workers EXCEPT ![w] =
                              [pc |-> "insert_key", op |-> op, arg |-> arg,
                               id |-> CHOOSE u \in fresh :
                                          \A o \in fresh \ {u} : BytesLess(u, o, 1),
                               calls |-> @.calls + 1, returned |-> None,
                               saw_absent |-> TRUE]]
    /\ UNCHANGED <<sled, conn, ret, firstFile, firstModule, firstProject, symLog, edgeLog,
                   occLog, failLog>>

WorkerInsertKey(w) ==
    /\ workers[w].pc = "insert_key"
    /\ LET me == workers[w]
           k == ensure_insert_key(sled, worker_namespace(me.op) \o me.arg,
                                  worker_record(me.op, me.arg, me.id))
       IN /\ sled' = k.store
          /\ workers' = [workers EXCEPT ![w].pc = "insert_id", ![w].id = k.id]
    /\ UNCHANGED <<conn, ret, firstFile, firstModule, firstProject, symLog, edgeLog,
                   occLog, failLog>>

WorkerInsertId(w) ==
    /\ workers[w].pc = "insert_id"
    /\ LET me == workers[w]
       IN /\ sled' = ensure_insert_id(sled, worker_namespace(me.op),
                                      worker_record(me.op, me.arg, me.id))
          /\ workers' = [workers EXCEPT ![w].pc = "idle", ![w].returned = Some(me.id)]
    /\ UNCHANGED <<conn, ret, firstFile, firstModule, firstProject, symLog, edgeLog,
                   occLog, failLog>>

(***************************************************************************)
(* Specifications: one per layer, and the whole store                       *)
(***************************************************************************)
NextFile ==
    \E path \in Paths \cup IssuedFileIds, a \in FileAttrs :
        EnsureFile(0, a[1], path, a[2], a[3], a[4])

SpecFile == Init /\ [][NextFile]_vars

NextModule ==
    \E name \in ModuleNames \cup IssuedModuleIds, kind \in ModuleKinds, path \in ModulePaths :
        UpsertModule(0, name, kind, path)

SpecModule == Init /\ [][NextModule]_vars

NextProject ==
    \E name \in ProjectNames, root_path \in RootPaths \cup IssuedProjectIds :
        EnsureProject(0, name, root_path)

SpecProject == Init /\ [][NextProject]_vars

\* SymgraphDb::ensure_file(path, lang) = ensure_file_with_category("1", path, lang, None, None)
NextGraph ==
    \/ EnsureFile(0, "1", "a.cpp", "c++", None, None)
    \/ \E file \in Paths, s \in SymbolInputs :
           InsertSymbol(0, file, s[1], None, s[2], "FunctionDecl", TRUE)
    \/ \E edge_id \in NewUuids(sled, EdgeUuids, "edge:"),
          i, j \in 1..Len(symLog), kind \in Kinds :
           InsertEdge(0, edge_id, Some(i), Some(j), None, None, kind)
    \/ \E usr \in Usrs : FindSymbolByUsr(usr)
    \/ \E kind \in Kinds, usr \in Usrs : QueryEdgesByKindFrom(kind, usr)

SpecGraph == Init /\ [][NextGraph]_vars

\* the ingestion of one file and one module of a project where the backing
\* store may fail at a write: every call is made without a failure or with
\* the number of the write that fails
NextFault ==
    \/ \E fail \in 0..2 : EnsureProject(fail, "cpp_project", ".")
    \/ \E fail \in 0..2 : EnsureFile(fail, "1", "a.cpp", "c++", None, None)
    \/ \E fail \in 0..2 : UpsertModule(fail, "foo", "cpp20-module", "")
    \/ \E fail \in 0..2 :
           InsertSymbol(fail, "a.cpp", Some("c:@F@x#"), None, "foo", "FunctionDecl", TRUE)
    \/ \E fail \in 0..1 :
           InsertOccurrence(fail, 1, "a.cpp", "call", 10, 5)
    \/ \E fail \in 0..2, edge_id \in NewUuids(sled, EdgeUuids, "edge:") :
           InsertEdge(fail, edge_id, Some(1), Some(1), None, None, "call")
    \/ \E fail \in 0..1, edge_id \in NewUuids(sled, EdgeUuids, "edge:") :
           InsertEdge(fail, edge_id, None, None, Some("foo"), Some("foo"), "module-import")
    \/ QueryEdgesByKindFrom("call", "c:@F@x#")

SpecFault == Init /\ [][NextFault]_vars

\* insert_edge with a symbol pair, a module pair, and the malformed
\* addressings: mixed either way, source only, nothing; which of from_sym,
\* to_sym, from_module, to_module the call passes
EdgeAddressings == { <<TRUE, TRUE, FALSE, FALSE>>, <<FALSE, FALSE, TRUE, TRUE>>,
                     <<TRUE, FALSE, FALSE, TRUE>>, <<FALSE, TRUE, TRUE, FALSE>>,
                     <<TRUE, FALSE, FALSE, FALSE>>, <<FALSE, FALSE, FALSE, FALSE>> }
Given(present, handle) == IF present THEN Some(handle) ELSE None

\* the endpoints are the first symbol and the module foo; the kind goes with
\* the source: module-import from a module, call otherwise
NextEdges ==
    \/ EnsureFile(0, "1", "a.cpp", "c++", None, None)
    \/ UpsertModule(0, "foo", "cpp20-module", "")
    \/ InsertSymbol(0, "a.cpp", Some("c:@F@x#"), None, "foo", "FunctionDecl", TRUE)
    \/ \E edge_id \in NewUuids(sled, EdgeUuids, "edge:"), a \in EdgeAddressings :
           InsertEdge(0, edge_id, Given(a[1], 1), Given(a[2], 1), Given(a[3], "foo"),
                      Given(a[4], "foo"), IF a[3] THEN "module-import" ELSE "call")

SpecEdges == Init /\ [][NextEdges]_vars

\* the ingestion paths: the calls a scanner makes (a file, its symbols, the
\* occurrences and the edges of the symbols it finds by usr) and the loader
\* of SCIP indexes
NextIngest ==
    \/ EnsureFile(0, "1", "a.cpp", "c++", None, None)
    \/ InsertSymbol(0, "a.cpp", Some("c:@F@x#"), None, "foo", "FunctionDecl", TRUE)
    \/ InsertOccurrence(0, 1, "a.cpp", "call", 10, 5)
    \/ \E edge_id \in NewUuids(sled, EdgeUuids, "edge:") :
           InsertEdge(0, edge_id, Some(1), Some(1), None, None, "call")
    \/ \E scip_data \in ScipInputs : LoadScip(scip_data, "scip_project")

SpecIngest == Init /\ [][NextIngest]_vars

\* the edges that leave one symbol, each under whichever fresh uuid comes
NextOrder ==
    \/ EnsureFile(0, "1", "a.cpp", "c++", None, None)
    \/ \E s \in {<<"c:@F@x#", "foo">>, <<"c:@F@y#", "bar">>} :
           InsertSymbol(0, "a.cpp", Some(s[1]), None, s[2], "FunctionDecl", TRUE)
    \/ \E edge_id \in FreshUuids(sled, EdgeUuids, "edge:"), j \in 1..Len(symLog) :
           InsertEdge(0, edge_id, Some(1), Some(j), None, None, "call")
    \/ QueryEdgesByKindFrom("call", "c:@F@x#")

SpecOrder == Init /\ [][NextOrder]_vars

\* edges that leave one symbol for a symbol, for no target and for an id
\* without a symbol record
NextSkip ==
    \/ EnsureFile(0, "1", "a.cpp", "c++", None, None)
    \/ \E s \in {<<"c:@F@x#", "foo">>, <<"c:@F@y#", "bar">>} :
           InsertSymbol(0, "a.cpp", Some(s[1]), None, s[2], "FunctionDecl", TRUE)
    \/ \E edge_id \in NewUuids(sled, EdgeUuids, "edge:"),
          to_sym \in {None, Some(NoSymbol)} \cup {Some(j) : j \in 1..Len(symLog)} :
           InsertEdge(0, edge_id, Some(1), to_sym, None, None, "call")
    \/ QueryEdgesByKindFrom("call", "c:@F@x#")

SpecSkip == Init /\ [][NextSkip]_vars

\* the occurrences of the ingestion paths: the C++ scan with the 1-based
\* positions of libclang, the LSIF loader, the SCIP loader
NextPositions ==
    \/ EnsureFile(0, "1", "a.cpp", "c++", None, None)
    \/ InsertSymbol(0, "a.cpp", Some("c:@F@x#"), None, "foo", "FunctionDecl", TRUE)
    \/ InsertOccurrence(0, 1, "a.cpp", "call", 10, 5)
    \/ LsifOccurrence(0, 0)
    \/ \E scip_data \in ScipRanged : LoadScip(scip_data, "scip_project")

SpecPositions == Init /\ [][NextPositions]_vars

\* the module interface files of a tree, found in any order, any number of times
NextImport == \E mi \in ModuleFiles : ImportModules(mi)

SpecImport == Init /\ [][NextImport]_vars

\* two workers, each calling ensure_file and upsert_module on the same keys
WorkerCalls == { <<"ensure_file", "a.cpp">>, <<"upsert_module", "foo">> }
NextRace ==
    \/ \E w \in Workers, c \in WorkerCalls : WorkerLookup(w, c[1], c[2])
    \/ \E w \in Workers : WorkerInsertKey(w)
    \/ \E w \in Workers : WorkerInsertId(w)

SpecRace == Init /\ [][NextRace]_vars

\* the identity layer followed by the annotation pass over the projects
NextAnnotate ==
    \/ \E name \in ProjectNames, root_path \in RootPaths : EnsureProject(0, name, root_path)
    \/ \E path \in Paths : EnsureFile(0, "1", path, "c++", None, None)
    \/ \E name \in ModuleNames : UpsertModule(0, name, "cpp20-module", "")
    \/ \E root_path \in RootPaths, annotation \in Annotations :
           UpdateProjectAnnotation(root_path, annotation)

SpecAnnotate == Init /\ [][NextAnnotate]_vars

\* the ingestion paths, and the kind-scoped query put to what they loaded
NextRelations ==
    \/ NextIngest
    \/ \E kind \in Kinds, usr \in {ScipMain, ScipHelper, "c:@F@x#"} :
           QueryEdgesByKindFrom(kind, usr)

SpecRelations == Init /\ [][NextRelations]_vars

\* files, symbols with and without a usr, edges, and the two reports
NextStats ==
    \/ \E path \in Paths : EnsureFile(0, "1", path, "c++", None, None)
    \/ \E s \in {<<Some("c:@F@x#"), "foo">>, <<None, "bar">>} :
           InsertSymbol(0, "a.cpp", s[1], None, s[2], "FunctionDecl", TRUE)
    \/ \E edge_id \in NewUuids(sled, EdgeUuids, "edge:"), j \in 1..Len(symLog) :
           InsertEdge(0, edge_id, Some(1), Some(j), None, None, "call")
    \/ GetStats
    \/ ListFiles

SpecStats == Init /\ [][NextStats]_vars

\* edges of kinds of which one starts with another and a colon, and the
\* kind-scoped query
NextKinds ==
    \/ EnsureFile(0, "1", "a.cpp", "c++", None, None)
    \/ \E s \in {<<"c:@F@x#", "foo">>, <<"c:@F@y#", "bar">>} :
           InsertSymbol(0, "a.cpp", Some(s[1]), None, s[2], "FunctionDecl", TRUE)
    \/ \E edge_id \in NewUuids(sled, EdgeUuids, "edge:"), i, j \in 1..Len(symLog),
          kind \in EdgeKindStrings :
           InsertEdge(0, edge_id, Some(i), Some(j), None, None, kind)
    \/ \E kind \in EdgeKindStrings, usr \in Usrs : QueryEdgesByKindFrom(kind, usr)

SpecKinds == Init /\ [][NextKinds]_vars

\* scans and repeated scans of Rust sources into one store that may fail at
\* a write of insert_symbol, and the lookups of the scanned usrs
NextScan ==
    \/ \E fail \in 0..2, src \in RustSources : ScanRust(fail, src)
    \/ \E src \in RustSources :
           \E sym \in Range(src.symbols) : FindSymbolByUsr(rust_usr(src, sym))

SpecScan == Init /\ [][NextScan]_vars

Next == NextFile \/ NextModule \/ NextProject \/ NextGraph \/ NextFault \/ NextEdges
           \/ NextIngest \/ NextOrder \/ NextRace \/ NextSkip
           \/ NextImport \/ NextPositions \/ NextAnnotate
           \/ NextRelations \/ NextStats \/ NextKinds \/ NextScan

Spec == Init /\ [][Next]_vars

(***************************************************************************)
(* Properties                                                               *)
(***************************************************************************)
BagOfSeq(s) == [x \in Range(s) |-> Cardinality({i \in 1..Len(s) : s[i] = x})]
Count(x, s) == Cardinality({i \in 1..Len(s) : s[i] = x})

\* C1: ensure_file with a path ensured before returns the id of the first
\* call with that path, and two distinct paths never get the same FileId,
\* in both realizations.
C1_EnsureFileIdempotentInjective ==
    /\ ret.op = "ensure_file" =>
          /\ ret.kvId = Some(firstFile[ret.arg].kv)
          /\ ret.dbId = Some(firstFile[ret.arg].db)
    /\ \A p, q \in DOMAIN firstFile :
          p # q => /\ firstFile[p].kv # firstFile[q].kv
                   /\ firstFile[p].db # firstFile[q].db

\* C2: upsert_module with a name seen before returns the id of the first call
\* with that name, and two distinct names never get the same ModuleId, in
\* both realizations.
C2_UpsertModuleIdempotentInjective ==
    /\ ret.op = "upsert_module" =>
          /\ ret.kvId = Some(firstModule[ret.arg].kv)
          /\ ret.dbId = Some(firstModule[ret.arg].db)
    /\ \A m, n \in DOMAIN firstModule :
          m # n => /\ firstModule[m].kv # firstModule[n].kv
                   /\ firstModule[m].db # firstModule[n].db

\* the insert_symbol calls that carried the usr, oldest first
CallsWithUsr(usr) == {i \in 1..Len(symLog) : symLog[i].usr = Some(usr)}
MostRecent(calls) == CHOOSE i \in calls : \A j \in calls : j <= i

\* C3: find_symbol_by_usr(u) returns the id that the most recent
\* insert_symbol call with usr u returned, and nothing when there was no
\* such call (calls without a usr do not count), in both realizations.
C3_FindReturnsMostRecent ==
    ret.op = "find_symbol_by_usr" =>
        IF CallsWithUsr(ret.arg) = {}
        THEN ret.kvId = None /\ ret.dbId = None
        ELSE /\ ret.kvId = Some(symLog[MostRecent(CallsWithUsr(ret.arg))].kv)
             /\ ret.dbId = Some(symLog[MostRecent(CallsWithUsr(ret.arg))].db)

DistinctUsrs ==
    \A i, j \in 1..Len(symLog) :
        (i # j /\ IsSome(symLog[i].usr)) => symLog[i].usr # symLog[j].usr

\* the inserted edges of the kind whose source symbol was inserted with the usr
EdgesOfKindFrom(kind, usr) ==
    {e \in 1..Len(edgeLog) :
        /\ edgeLog[e].kind = kind
        /\ IsSome(edgeLog[e].from_sym) /\ IsSome(edgeLog[e].to_sym)
        /\ symLog[Unwrap(edgeLog[e].from_sym)].usr = Some(usr)}
TargetName(e) == symLog[Unwrap(edgeLog[e].to_sym)].name
\* how often the name is the target name of one of these edges
TargetCount(name, es) == Cardinality({e \in es : TargetName(e) = name})

\* C4: when all inserted usrs are distinct, query_edges_by_kind_from(K, u)
\* returns, in both realizations, exactly the multiset of the names of the
\* targets of the inserted edges of kind K whose source is the symbol of u.
C4_QueryReturnsDirectTargets ==
    (ret.op = "query_edges_by_kind_from" /\ DistinctUsrs) =>
        LET es == EdgesOfKindFrom(ret.kind, ret.arg)
            names == {TargetName(e) : e \in es}
        IN /\ Range(ret.kvNames) = names /\ Range(ret.dbNames) = names
           /\ \A n \in names : /\ Count(n, ret.kvNames) = TargetCount(n, es)
                               /\ Count(n, ret.dbNames) = TargetCount(n, es)

\* a query for the source of a chain S -> T -> V: the result is T alone, the
\* edge that leaves T (same kind, other source) is left out
C4_Witness ==
    /\ ret.op = "query_edges_by_kind_from" /\ DistinctUsrs
    /\ Len(ret.kvNames) = 1 /\ Len(ret.dbNames) = 1
    /\ \E e \in EdgesOfKindFrom(ret.kind, ret.arg) :
          \E t \in 1..Len(edgeLog) :
              /\ t \notin EdgesOfKindFrom(ret.kind, ret.arg)
              /\ edgeLog[t].kind = ret.kind
              /\ edgeLog[t].from_sym = edgeLog[e].to_sym
              /\ TargetName(t) \notin Range(ret.kvNames)
              /\ TargetName(t) \notin Range(ret.dbNames)

\* C5: every insert_symbol call makes a new record under a fresh id: there
\* are as many records as calls, each call's record is stored unchanged under
\* the id the call returned, and the lookup of a usr gives the id of the
\* newest call that carried it, in both realizations.
C5_InsertSymbolAlwaysCreates ==
    /\ Len(sled_scan_prefix(sled, "symbol:")) = Len(symLog)
    /\ Len(conn.symbols) = Len(symLog)
    /\ \A i, j \in 1..Len(symLog) :
          i # j => symLog[i].kv # symLog[j].kv /\ symLog[i].db # symLog[j].db
    /\ \A i \in 1..Len(symLog) :
          /\ ("symbol:" \o symLog[i].kv) \in DOMAIN sled
          /\ sled["symbol:" \o symLog[i].kv].id = symLog[i].kv
          /\ sled["symbol:" \o symLog[i].kv].usr = symLog[i].usr
          /\ sled["symbol:" \o symLog[i].kv].name = symLog[i].name
          /\ conn.symbols[symLog[i].db].usr = symLog[i].usr
          /\ conn.symbols[symLog[i].db].name = symLog[i].name
    /\ \A u \in Usrs :
          CallsWithUsr(u) # {} =>
              /\ SymgraphDb_find_symbol_by_usr(sled, u)
                    = Some(symLog[MostRecent(CallsWithUsr(u))].kv)
              /\ Db_find_symbol_by_usr(conn, u)
                    = Some(symLog[MostRecent(CallsWithUsr(u))].db)

\* C6: the two realizations answer alike up to the renaming of ids: the same
\* ids are equal, the same lookups find a symbol (the one of the same call),
\* and the edge queries return the same multiset of names.
C6_RealizationsAgree ==
    /\ \A p, q \in DOMAIN firstFile :
          (firstFile[p].kv = firstFile[q].kv) <=> (firstFile[p].db = firstFile[q].db)
    /\ \A m, n \in DOMAIN firstModule :
          (firstModule[m].kv = firstModule[n].kv) <=> (firstModule[m].db = firstModule[n].db)
    /\ ret.op = "find_symbol_by_usr" =>
          /\ IsSome(ret.kvId) <=> IsSome(ret.dbId)
          /\ IsSome(ret.kvId) =>
                \E i \in 1..Len(symLog) :
                    symLog[i].kv = Unwrap(ret.kvId) /\ symLog[i].db = Unwrap(ret.dbId)
    /\ ret.op = "query_edges_by_kind_from" =>
          BagOfSeq(ret.kvNames) = BagOfSeq(ret.dbNames)

\* the record of a module name as each store holds it
KvHasModule(name) ==
    /\ ("module:" \o name) \in DOMAIN sled
    /\ sled["module:" \o name].name = name

\* C7: the record of an existing module name keeps the kind and the path of
\* the first upsert_module call with that name, whatever later calls pass; a
\* module created with an empty path keeps it.
C7_RepeatUpsertLeavesRecord ==
    \A name \in DOMAIN firstModule :
        /\ KvHasModule(name) =>
              LET m == sled["module:" \o name]
              IN /\ m.kind = firstModule[name].kind
                 /\ m.path = (IF firstModule[name].path = "" THEN None
                              ELSE Some(firstModule[name].path))
                 /\ sled["module:" \o m.id] = m
        /\ \A i \in 1..Len(conn.modules) :
              conn.modules[i].name = name =>
                  /\ conn.modules[i].kind = firstModule[name].kind
                  /\ conn.modules[i].path = firstModule[name].path

\* a module first seen as an import target is declared later with a path
C7_Witness ==
    /\ ret.op = "upsert_module"
    /\ KvHasModule(ret.arg)
    /\ firstModule[ret.arg].path = ""
    /\ ret.args[3] # ""
    /\ ret.args[2] # firstModule[ret.arg].kind
    /\ sled["module:" \o ret.arg].path = None

KvHasFile(path) ==
    /\ ("file:" \o path) \in DOMAIN sled
    /\ sled["file:" \o path].path = path

\* C8: ensure_file_with_category on a path that has a record returns the id
\* of that record and writes nothing: the store is the same afterwards, and
\* the record still has the project id, language, category and purpose of
\* the first call.
C8_RepeatEnsureFileWritesNothing ==
    [][(ret'.op = "ensure_file" /\ KvHasFile(ret'.arg)) =>
          LET f == sled["file:" \o ret'.arg]
              first == firstFile[ret'.arg]
          IN /\ sled' = sled
             /\ ret'.kvId = Some(f.id)
             /\ f.id = first.kv
             /\ f.project_id = first.project_id /\ f.lang = first.lang
             /\ f.category = first.category /\ f.purpose = first.purpose]_vars

\* a repeat call that passes another project, language, category and purpose
C8_Witness ==
    /\ ret.op = "ensure_file"
    /\ KvHasFile(ret.arg)
    /\ ret.args[1] # firstFile[ret.arg].project_id
    /\ ret.args[3] # firstFile[ret.arg].lang
    /\ ret.args[4] # firstFile[ret.arg].category
    /\ ret.args[5] # firstFile[ret.arg].purpose

\* C9: ensure_project with a root_path seen before returns the id of the
\* first call and the record keeps the name of the first call; a root_path
\* not seen before gets an id of its own and a record without annotations.
C9_EnsureProjectByRootPath ==
    /\ ret.op = "ensure_project" => ret.kvId = Some(firstProject[ret.arg].kv)
    /\ \A r, q \in DOMAIN firstProject : r # q => firstProject[r].kv # firstProject[q].kv
    /\ \A r \in DOMAIN firstProject :
          /\ ("project:" \o r) \in DOMAIN sled
          /\ LET pr == sled["project:" \o r]
             IN /\ pr.id = firstProject[r].kv
                /\ pr.root_path = r
                /\ pr.name = firstProject[r].name
                /\ pr.description = None /\ pr.purpose = None
                /\ pr.structure = None /\ pr.dependencies = None

\* the inserted edges with the same source, target and kind as edge e
SameEdges(e) ==
    {d \in 1..Len(edgeLog) :
        /\ edgeLog[d].from_sym = edgeLog[e].from_sym
        /\ edgeLog[d].to_sym = edgeLog[e].to_sym
        /\ edgeLog[d].kind = edgeLog[e].kind}

\* C10: an edge inserted n times with the same source, target and kind shows
\* n times in the result of the query for its kind and its source, in both
\* realizations: the name of its target is in the result at least n times.
C10_DuplicateEdgesDuplicateNames ==
    ret.op = "query_edges_by_kind_from" =>
        \A e \in 1..Len(edgeLog) :
            (edgeLog[e].kind = ret.kind /\ IsSome(edgeLog[e].from_sym)
                                        /\ IsSome(edgeLog[e].to_sym)) =>
                LET from == symLog[Unwrap(edgeLog[e].from_sym)]
                    n == Cardinality(SameEdges(e))
                IN /\ SymgraphDb_find_symbol_by_usr(sled, ret.arg) = Some(from.kv)
                        => Count(TargetName(e), ret.kvNames) >= n
                   /\ from.usr = Some(ret.arg)
                        => Count(TargetName(e), ret.dbNames) >= n

\* the same edge was inserted twice and the query returns its target twice
C10_Witness ==
    /\ ret.op = "query_edges_by_kind_from"
    /\ \E e \in 1..Len(edgeLog) :
          /\ Cardinality(SameEdges(e)) >= 2
          /\ edgeLog[e].kind = ret.kind
          /\ Count(TargetName(e), ret.kvNames) >= 2
          /\ Count(TargetName(e), ret.dbNames) >= 2

\* C11: query_edges_by_kind_from with a from_usr that no insert_symbol call
\* carried returns the empty list in both realizations, which is also the
\* result for a usr whose symbols have no outgoing edge of the kind.
C11_UnresolvedUsrGivesEmpty ==
    ret.op = "query_edges_by_kind_from" =>
        /\ CallsWithUsr(ret.arg) = {} => ret.kvNames = <<>> /\ ret.dbNames = <<>>
        /\ EdgesOfKindFrom(ret.kind, ret.arg) = {} => ret.kvNames = <<>> /\ ret.dbNames = <<>>

\* a query for a usr never inserted, while an edge of the kind is stored
C11_Witness ==
    /\ ret.op = "query_edges_by_kind_from"
    /\ CallsWithUsr(ret.arg) = {}
    /\ \E e \in 1..Len(edgeLog) : edgeLog[e].kind = ret.kind
    /\ ret.kvNames = <<>> /\ ret.dbNames = <<>>

\* the insert_edge calls that failed at the index write, after the primary one
HalfWrittenEdges == {i \in 1..Len(failLog) : failLog[i].op = "insert_edge"
                                              /\ failLog[i].wrote = 1}

\* C12 as stated: the number of stored edge records is the number of
\* successful insert_edge calls, and the number of stored occurrence records
\* is the number of successful insert_occurrence calls, in both realizations.
C12_StoredEqualsSuccessfulCalls ==
    /\ Len(sled_scan_prefix(sled, "edge:")) = Len(edgeLog)
    /\ Len(conn.edges) = Len(edgeLog)
    /\ Len(sled_scan_prefix(sled, "occurrence:")) = Len(occLog)
    /\ Len(conn.occurrences) = Len(occLog)

\* C12: insert_edge and insert_occurrence append: every successful call adds
\* one record with a fresh id, repeated identical facts included, so there is
\* one occurrence record per successful insert_occurrence call and one edge
\* record per successful insert_edge call; the key-value store holds, beyond
\* these, one edge record for every insert_edge call that failed at the write
\* of its index record.
C12_AppendOnlyCounts ==
    /\ Len(sled_scan_prefix(sled, "edge:")) = Len(edgeLog) + Cardinality(HalfWrittenEdges)
    /\ Len(conn.edges) = Len(edgeLog)
    /\ Len(sled_scan_prefix(sled, "occurrence:")) = Len(occLog)
    /\ Len(conn.occurrences) = Len(occLog)
    /\ \A i, j \in 1..Len(edgeLog) :
          i # j => edgeLog[i].kv # edgeLog[j].kv /\ edgeLog[i].db # edgeLog[j].db
    /\ \A i, j \in 1..Len(occLog) :
          i # j => occLog[i].kv # occLog[j].kv /\ occLog[i].db # occLog[j].db

\* the same edge was inserted twice, and a third call failed at the index
\* write: three edge records, two successful calls
C12_Witness ==
    /\ \E i, j \in 1..Len(edgeLog) :
          /\ i # j
          /\ [edgeLog[i] EXCEPT !.kv = "", !.db = 0] = [edgeLog[j] EXCEPT !.kv = "", !.db = 0]
    /\ HalfWrittenEdges # {}
    /\ Len(sled_scan_prefix(sled, "edge:")) = Len(edgeLog) + 1

\* an edge addresses a pair of symbols or a pair of modules, nothing else
SymbolPair(e) == /\ IsSome(e.from_sym) /\ IsSome(e.to_sym)
                 /\ ~IsSome(e.from_module) /\ ~IsSome(e.to_module)
ModulePair(e) == /\ IsSome(e.from_module) /\ IsSome(e.to_module)
                 /\ ~IsSome(e.from_sym) /\ ~IsSome(e.to_sym)
KvEdges == {sled[k] : k \in {x \in DOMAIN sled : IsPrefix("edge:", x)}}

\* C13 as stated: every stored edge has a symbol pair or a module pair.
C13_EdgesNeverMixed ==
    /\ \A e \in KvEdges : SymbolPair(e) \/ ModulePair(e)
    /\ \A i \in 1..Len(conn.edges) : SymbolPair(conn.edges[i]) \/ ModulePair(conn.edges[i])

\* C13: insert_edge keeps the addressing of the call: an edge inserted with a
\* symbol pair is stored with exactly that symbol pair and no module endpoint,
\* an edge inserted with a module pair with exactly that module pair and no
\* symbol endpoint; a stored edge is mixed or incomplete only when the
\* insert_edge call that made it was.
C13_PairsStoredAsPairs ==
    /\ \A i \in 1..Len(edgeLog) :
          LET e == edgeLog[i]
          IN /\ ("edge:" \o e.kv) \in DOMAIN sled
             /\ e.db \in 1..Len(conn.edges)
             /\ SymbolPair(e) => SymbolPair(sled["edge:" \o e.kv]) /\ SymbolPair(conn.edges[e.db])
             /\ ModulePair(e) => ModulePair(sled["edge:" \o e.kv]) /\ ModulePair(conn.edges[e.db])
    /\ \A r \in KvEdges :
          ~(SymbolPair(r) \/ ModulePair(r)) =>
              \E i \in 1..Len(edgeLog) :
                  edgeLog[i].kv = r.id /\ ~(SymbolPair(edgeLog[i]) \/ ModulePair(edgeLog[i]))
    /\ \A d \in 1..Len(conn.edges) :
          ~(SymbolPair(conn.edges[d]) \/ ModulePair(conn.edges[d])) =>
              \E i \in 1..Len(edgeLog) :
                  edgeLog[i].db = d /\ ~(SymbolPair(edgeLog[i]) \/ ModulePair(edgeLog[i]))

\* a symbol pair, a module pair and a mixed edge are stored side by side
C13_Witness ==
    /\ \E i \in 1..Len(edgeLog) : SymbolPair(edgeLog[i]) /\ SymbolPair(conn.edges[edgeLog[i].db])
    /\ \E i \in 1..Len(edgeLog) : ModulePair(edgeLog[i]) /\ ModulePair(sled["edge:" \o edgeLog[i].kv])
    /\ \E r \in KvEdges : ~(SymbolPair(r) \/ ModulePair(r))

\* the stored edge of call i has the endpoints and the kind the call gave
StoredAsGiven(i) ==
    LET e == edgeLog[i]
    IN /\ ("edge:" \o e.kv) \in DOMAIN sled
       /\ LET r == sled["edge:" \o e.kv]
          IN /\ r.id = e.kv /\ r.kind = e.kind
             /\ r.from_sym = KvSym(e.from_sym) /\ r.to_sym = KvSym(e.to_sym)
             /\ r.from_module = KvMod(e.from_module) /\ r.to_module = KvMod(e.to_module)
       /\ e.db \in 1..Len(conn.edges)
       /\ LET w == conn.edges[e.db]
          IN /\ w.kind = e.kind
             /\ w.from_sym = DbSym(e.from_sym) /\ w.to_sym = DbSym(e.to_sym)
             /\ w.from_module = DbMod(e.from_module) /\ w.to_module = DbMod(e.to_module)

\* C14: insert_edge with any addressing, mixed or incomplete included, does
\* not fail: it returns an EdgeId that no earlier call returned and stores the
\* four endpoints and the kind as given, in both realizations.
C14_MalformedEdgeStoredAsGiven ==
    /\ ret.op = "insert_edge" =>
          /\ ~ret.err /\ IsSome(ret.kvId) /\ IsSome(ret.dbId)
          /\ edgeLog[Len(edgeLog)].kv = Unwrap(ret.kvId)
          /\ edgeLog[Len(edgeLog)].db = Unwrap(ret.dbId)
    /\ \A i \in 1..Len(edgeLog) : StoredAsGiven(i)
    /\ \A i, j \in 1..Len(edgeLog) :
          i # j => edgeLog[i].kv # edgeLog[j].kv /\ edgeLog[i].db # edgeLog[j].db

\* an edge from a symbol to a module and an edge without any endpoint
C14_Witness ==
    /\ ret.op = "insert_edge" /\ ~ret.err
    /\ \E i \in 1..Len(edgeLog) :
          /\ IsSome(edgeLog[i].from_sym) /\ IsSome(edgeLog[i].to_module)
          /\ ~IsSome(edgeLog[i].to_sym) /\ ~IsSome(edgeLog[i].from_module)
          /\ StoredAsGiven(i)
    /\ \E i \in 1..Len(edgeLog) :
          /\ ~IsSome(edgeLog[i].from_sym) /\ ~IsSome(edgeLog[i].to_module)
          /\ ~IsSome(edgeLog[i].to_sym) /\ ~IsSome(edgeLog[i].from_module)
          /\ StoredAsGiven(i)

\* the composite index record of a stored edge r, keyed by its source
IndexKey(r, source) == "edges_from:" \o source \o ":" \o r.kind \o ":" \o r.id
HasIndexRecord(r) ==
    LET source == IF IsSome(r.from_sym) THEN r.from_sym ELSE r.from_module
    IN /\ IsSome(source)
       /\ IndexKey(r, Unwrap(source)) \in DOMAIN sled
       /\ sled[IndexKey(r, Unwrap(source))] = r
IndexRecords == {k \in DOMAIN sled : IsPrefix("edges_from:", k)}

\* C20: in the key-value store every edge inserted with a symbol pair or a
\* module pair has its primary record and a composite index record under
\* (source id, kind, edge id) with the same content, and every composite
\* index record has the content of the primary record of its edge.
C20_EveryEdgeIndexed ==
    /\ \A i \in 1..Len(edgeLog) :
          (SymbolPair(edgeLog[i]) \/ ModulePair(edgeLog[i])) =>
              /\ ("edge:" \o edgeLog[i].kv) \in DOMAIN sled
              /\ HasIndexRecord(sled["edge:" \o edgeLog[i].kv])
    /\ \A k \in IndexRecords :
          /\ ("edge:" \o sled[k].id) \in DOMAIN sled
          /\ sled["edge:" \o sled[k].id] = sled[k]

KvOccurrences == {sled[k] : k \in {x \in DOMAIN sled : IsPrefix("occurrence:", x)}}
\* the id names a record of the namespace: the record under the id has it
KvIssued(ns, id) == (ns \o id) \in DOMAIN sled /\ sled[ns \o id].id = id

\* C15: every stored occurrence names a symbol id and a file id that have a
\* record, and every endpoint of a stored edge names a symbol or a module
\* that has a record, whichever ingestion path stored them.
C15_FactsReferenceIssuedIds ==
    /\ \A o \in KvOccurrences :
          KvIssued("symbol:", o.symbol_id) /\ KvIssued("file:", o.file_id)
    /\ \A e \in KvEdges :
          /\ \A h \in {e.from_sym, e.to_sym} : IsSome(h) => KvIssued("symbol:", Unwrap(h))
          /\ \A h \in {e.from_module, e.to_module} :
                IsSome(h) => KvIssued("module:", Unwrap(h))
    /\ \A i \in 1..Len(conn.occurrences) :
          /\ conn.occurrences[i].symbol_id \in 1..Len(conn.symbols)
          /\ conn.occurrences[i].file_id \in 1..Len(conn.files)
    /\ \A i \in 1..Len(conn.edges) :
          /\ \A h \in {conn.edges[i].from_sym, conn.edges[i].to_sym} :
                IsSome(h) => Unwrap(h) \in 1..Len(conn.symbols)
          /\ \A h \in {conn.edges[i].from_module, conn.edges[i].to_module} :
                IsSome(h) => Unwrap(h) \in 1..Len(conn.modules)

\* C16: a call of ensure_project, ensure_file, upsert_module, insert_symbol,
\* insert_occurrence or insert_edge at one of whose writes the backing store
\* fails returns the error, and every record that was in the stores before
\* the call is there afterwards with the same content.
C16_FailedCallKeepsEarlierRecords ==
    [][ret'.fault # 0 =>
          /\ ret'.err /\ ret'.kvId = None
          /\ \A k \in DOMAIN sled : k \in DOMAIN sled' /\ sled'[k] = sled[k]
          /\ conn' = conn]_vars

\* an insert_symbol call fails at the write of its usr index after an earlier
\* call with the same usr succeeded: the index still names the earlier symbol
C16_Witness ==
    /\ ret.op = "insert_symbol" /\ ret.err /\ ret.fault = 2
    /\ Len(symLog) >= 1
    /\ SymgraphDb_find_symbol_by_usr(sled, ret.arg) = Some(symLog[Len(symLog)].kv)
    /\ Len(sled_scan_prefix(sled, "symbol:")) = Len(symLog) + 1

\* the records of a namespace of the identity layer
IdentityRecords(ns) == {sled[k] : k \in {x \in DOMAIN sled : IsPrefix(ns, x)}}

\* C18: in the key-value store no project, file or module record is found
\* under its natural key while no record exists under its id, also after a
\* call whose second write failed.
C18_IdentityCreatedAtomically ==
    \A ns \in {"project:", "file:", "module:"} :
        \A r \in IdentityRecords(ns) : (ns \o r.id) \in DOMAIN sled

\* the successful insert_edge calls of the kind that leave the symbol which
\* the usr index names
IndexedEdgesFrom(store, kind, usr) ==
    {e \in 1..Len(edgeLog) :
        /\ edgeLog[e].kind = kind
        /\ IsSome(edgeLog[e].from_sym) /\ IsSome(edgeLog[e].to_sym)
        /\ KvSym(edgeLog[e].from_sym) = SymgraphDb_find_symbol_by_usr(store, usr)}

\* C19: an insert_edge call in the key-value store that fails at the write of
\* the composite index record leaves the primary record of the edge and no
\* index record of it; every other record is as before the call, and a later
\* query_edges_by_kind_from returns the targets of the successful calls only.
C19_HalfWrittenEdgeInvisible ==
    [][/\ (ret'.op = "insert_edge" /\ ret'.fault = 2) =>
             LET id == failLog'[Len(failLog')].id
             IN /\ ("edge:" \o id) \notin DOMAIN sled
                /\ DOMAIN sled' = DOMAIN sled \cup {"edge:" \o id}
                /\ \A k \in DOMAIN sled : sled'[k] = sled[k]
                /\ sled'["edge:" \o id].id = id
                /\ \A k \in DOMAIN sled' : IsPrefix("edges_from:", k) => sled'[k].id # id
                /\ conn' = conn
       /\ ret'.op = "query_edges_by_kind_from" =>
             Len(ret'.kvNames) = Cardinality(IndexedEdgesFrom(sled, ret'.kind, ret'.arg))
      ]_vars

\* a query after a successful insert_edge and one that failed at the index
\* write, both from the symbol of the usr to an existing symbol: one name
C19_Witness ==
    /\ ret.op = "query_edges_by_kind_from"
    /\ \E i \in HalfWrittenEdges :
          LET r == sled["edge:" \o failLog[i].id]
          IN /\ r.kind = ret.kind
             /\ r.from_sym = SymgraphDb_find_symbol_by_usr(sled, ret.arg)
             /\ IsSome(r.to_sym) /\ ("symbol:" \o Unwrap(r.to_sym)) \in DOMAIN sled
    /\ Len(ret.kvNames) = 1
    /\ Cardinality(IndexedEdgesFrom(sled, ret.kind, ret.arg)) = 1

\* the names of the targets of the inserted edges es, in the order of the calls
RECURSIVE NamesInCallOrder(_, _)
NamesInCallOrder(es, e) ==
    IF e > Len(edgeLog) THEN <<>>
    ELSE (IF e \in es THEN <<TargetName(e)>> ELSE <<>>) \o NamesInCallOrder(es, e + 1)

\* the names of the targets of the inserted edges es, in the byte order of
\* the ids that the key-value store gave the edges
RECURSIVE NamesInIdOrder(_)
NamesInIdOrder(es) ==
    IF es = {} THEN <<>>
    ELSE LET least == CHOOSE e \in es :
                          \A o \in es \ {e} : BytesLess(edgeLog[e].kv, edgeLog[o].kv, 1)
         IN <<TargetName(least)>> \o NamesInIdOrder(es \ {least})

Raced(v, w) ==
    /\ v # w
    /\ workers[v].pc = "idle" /\ workers[w].pc = "idle"
    /\ workers[v].op # "" /\ workers[v].op = workers[w].op /\ workers[v].arg = workers[w].arg
    /\ workers[v].saw_absent /\ workers[w].saw_absent

\* C21: when two workers interleave ensure_file (or upsert_module) on one
\* key so that both look the key up before either inserts it, the two calls
\* return different ids, a record is stored under each of the two ids, the
\* two records differ, and the natural key holds one of them; a call that
\* finds the key returns the id of the record under it.
C21_RaceCreatesDivergentRecords ==
    /\ \A v, w \in Workers :
          Raced(v, w) =>
              LET ns == worker_namespace(workers[v].op)
                  a == Unwrap(workers[v].returned)
                  b == Unwrap(workers[w].returned)
              IN /\ a # b
                 /\ (ns \o a) \in DOMAIN sled /\ (ns \o b) \in DOMAIN sled
                 /\ sled[ns \o a] # sled[ns \o b]
                 /\ sled[ns \o a].id = a /\ sled[ns \o b].id = b
                 /\ sled[ns \o workers[v].arg] \in {sled[ns \o a], sled[ns \o b]}
    /\ \A w \in Workers :
          (workers[w].pc = "idle" /\ workers[w].op # "" /\ ~workers[w].saw_absent) =>
              LET ns == worker_namespace(workers[w].op)
              IN /\ (ns \o workers[w].arg) \in DOMAIN sled
                 /\ \E k \in DOMAIN sled :
                       IsPrefix(ns, k) /\ sled[k].id = Unwrap(workers[w].returned)

\* two ensure_file calls with the same path have returned different ids
C21_Witness ==
    /\ Raced(1, 2)
    /\ workers[1].op = "ensure_file"
    /\ workers[1].returned # workers[2].returned
    /\ Cardinality({k \in DOMAIN sled : IsPrefix("file:", k)}) = 3

\* every id that a successful call returned has its record, in both stores
ReturnedIdsHaveRecords ==
    /\ \A p \in DOMAIN firstFile :
          KvIssued("file:", firstFile[p].kv) /\ firstFile[p].db \in 1..Len(conn.files)
    /\ \A m \in DOMAIN firstModule :
          KvIssued("module:", firstModule[m].kv) /\ firstModule[m].db \in 1..Len(conn.modules)
    /\ \A p \in DOMAIN firstProject : KvIssued("project:", firstProject[p].kv)
    /\ \A i \in 1..Len(symLog) :
          KvIssued("symbol:", symLog[i].kv) /\ symLog[i].db \in 1..Len(conn.symbols)
    /\ \A i \in 1..Len(occLog) :
          KvIssued("occurrence:", occLog[i].kv) /\ occLog[i].db \in 1..Len(conn.occurrences)
    /\ \A i \in 1..Len(edgeLog) :
          KvIssued("edge:", edgeLog[i].kv) /\ edgeLog[i].db \in 1..Len(conn.edges)

\* the namespaces of the symbol, occurrence and edge records
FactNamespaces == {"symbol:", "occurrence:", "edge:", "edges_from:"}

\* a step removes no key and no row, and leaves every symbol, occurrence and
\* edge as it was
NothingDeletedOrModified ==
    /\ \A k \in DOMAIN sled :
          /\ k \in DOMAIN sled'
          /\ (\E ns \in FactNamespaces : IsPrefix(ns, k)) => sled'[k] = sled[k]
    /\ \A t \in {"files", "modules"} :
          /\ Len(conn'[t]) >= Len(conn[t])
    /\ \A t \in {"symbols", "occurrences", "edges"} :
          /\ Len(conn'[t]) >= Len(conn[t])
          /\ SubSeq(conn'[t], 1, Len(conn[t])) = conn[t]

\* C22: no operation deletes a record: the record under an id that
\* ensure_project, ensure_file, upsert_module, insert_symbol, insert_occurrence
\* or insert_edge returned exists in every later state, and no symbol,
\* occurrence or edge record is modified after it was created.
C22_NothingDeleted ==
    [](ReturnedIdsHaveRecords) /\ [][NothingDeletedOrModified]_vars

\* the steps alone: they delete and modify nothing, also when a write fails
StepsDeleteNothing == [][NothingDeletedOrModified]_vars

\* the inserted edges of the kind that leave the symbol inserted with the usr
EdgesLeaving(kind, usr) ==
    {e \in 1..Len(edgeLog) :
        /\ edgeLog[e].kind = kind
        /\ IsSome(edgeLog[e].from_sym) /\ Unwrap(edgeLog[e].from_sym) # NoSymbol
        /\ symLog[Unwrap(edgeLog[e].from_sym)].usr = Some(usr)}
\* the target of the edge is given and has a symbol record
HasTarget(e) == IsSome(edgeLog[e].to_sym) /\ Unwrap(edgeLog[e].to_sym) # NoSymbol

\* C23: when all inserted usrs are distinct, query_edges_by_kind_from returns
\* without an error, in both realizations, the names of the targets of the
\* matching edges whose to_sym is given and has a symbol record, one name per
\* such edge, and nothing for a matching edge whose to_sym is absent or names
\* an id without a symbol record.
C23_QuerySkipsMissingTargets ==
    (ret.op = "query_edges_by_kind_from" /\ DistinctUsrs) =>
        LET es == {e \in EdgesLeaving(ret.kind, ret.arg) : HasTarget(e)}
        IN /\ ~ret.err
           /\ ret.kvNames = NamesInCallOrder(es, 1)
           /\ ret.dbNames = NamesInCallOrder(es, 1)

\* a query over an edge without a target, an edge to an id without a record
\* and an edge to a symbol: one name
C23_Witness ==
    /\ ret.op = "query_edges_by_kind_from" /\ DistinctUsrs
    /\ \E e \in EdgesLeaving(ret.kind, ret.arg) : edgeLog[e].to_sym = None
    /\ \E e \in EdgesLeaving(ret.kind, ret.arg) : edgeLog[e].to_sym = Some(NoSymbol)
    /\ Cardinality({e \in EdgesLeaving(ret.kind, ret.arg) : HasTarget(e)}) = 1
    /\ Len(ret.kvNames) = 1 /\ Len(ret.dbNames) = 1

\* the module records of the name in each store
KvModulesNamed(name) ==
    {sled[k] : k \in {x \in DOMAIN sled : IsPrefix("module:", x) /\ sled[x].name = name}}
DbModulesNamed(name) == {i \in 1..Len(conn.modules) : conn.modules[i].name = name}

\* C24: after import_modules has processed module files in any order, every
\* module name, declared or only imported, has one ModuleId in each store,
\* the one its first upsert returned, with a record under it, and every
\* module-import edge is stored from the id of the declaring module to the id
\* of the imported name, also when the import came before the declaration.
C24_ImportedModulesHaveOneId ==
    /\ \A name \in DOMAIN firstModule :
          /\ {r.id : r \in KvModulesNamed(name)} = {firstModule[name].kv}
          /\ KvIssued("module:", firstModule[name].kv)
          /\ DbModulesNamed(name) = {firstModule[name].db}
    /\ \A i \in 1..Len(edgeLog) :
          edgeLog[i].kind = "module-import" =>
              /\ ModulePair(edgeLog[i])
              /\ StoredAsGiven(i)
    /\ ret.op = "import_modules" =>
          /\ ret.kvId = Some(firstModule[ret.arg].kv)
          /\ ret.dbId = Some(firstModule[ret.arg].db)
          /\ \A n \in 1..Len(ret.args) : ret.args[n] \in DOMAIN firstModule

\* the file of bar was processed after foo had imported bar: bar was created
\* as a placeholder, and the edge from foo names the id that bar has now
C24_Witness ==
    /\ ret.op = "import_modules" /\ ret.arg = "bar"
    /\ "bar" \in DOMAIN firstModule /\ firstModule["bar"].path = ""
    /\ \E i \in 1..Len(edgeLog) :
          /\ edgeLog[i].from_module = Some("foo") /\ edgeLog[i].to_module = Some("bar")
          /\ sled["edge:" \o edgeLog[i].kv].to_module = ret.kvId
          /\ conn.edges[edgeLog[i].db].to_module = ret.dbId

\* a u32 that is at least 1 and below 2^31
OneBased(v) == v.high = 0 /\ v.low >= 1

\* C25: every stored occurrence has a line and a column that are at least 1
\* and not the wrap of a negative number, whichever ingestion path stored it.
C25_PositionsOneBased ==
    /\ \A o \in KvOccurrences : OneBased(o.line) /\ OneBased(o.column)
    /\ \A i \in 1..Len(conn.occurrences) :
          OneBased(conn.occurrences[i].line) /\ OneBased(conn.occurrences[i].column)

\* the occurrences of the C++ scan and of the LSIF loader alone are 1-based
ScannedPositionsOneBased ==
    \A i \in 1..Len(occLog) :
        /\ OneBased(sled["occurrence:" \o occLog[i].kv].line)
        /\ OneBased(sled["occurrence:" \o occLog[i].kv].column)
        /\ OneBased(conn.occurrences[occLog[i].db].line)
        /\ OneBased(conn.occurrences[occLog[i].db].column)

\* C26: in the key-value store every project, file and module record found
\* under a key of its namespace is stored under its id too, and the copy
\* under the natural key equals the copy under the id, also after
\* update_project_annotation.
C26_CopiesIdentical ==
    \A ns \in {"project:", "file:", "module:"} :
        \A k \in {x \in DOMAIN sled : IsPrefix(ns, x)} :
            /\ (ns \o sled[k].id) \in DOMAIN sled
            /\ sled[ns \o sled[k].id] = sled[k]

\* the same of the files and the modules alone
FileAndModuleCopiesIdentical ==
    \A ns \in {"file:", "module:"} :
        \A k \in {x \in DOMAIN sled : IsPrefix(ns, x)} :
            /\ (ns \o sled[k].id) \in DOMAIN sled
            /\ sled[ns \o sled[k].id] = sled[k]

\* the SCIP symbols that were loaded, and their relationships to loaded symbols
ScipSymbolsLoaded == {sled[k] : k \in {x \in DOMAIN sled : IsPrefix("scip_symbol:", x)}}
LoadedRelationships ==
    UNION { { [from |-> r.symbol, kind |-> r.relationships[i].kind,
               to |-> r.relationships[i].target_symbol] :
              i \in {j \in 1..Len(r.relationships) :
                        ("scip_symbol_by_name:" \o r.relationships[j].target_symbol)
                            \in DOMAIN sled} } : r \in ScipSymbolsLoaded }
\* the name of the symbol record that find_symbol_by_usr resolves the usr to
ResolvedName(usr) == sled["symbol:" \o Unwrap(SymgraphDb_find_symbol_by_usr(sled, usr))].name

\* C27: after load_scip_to_database, for every relationship (s -> t, kind)
\* between loaded SCIP symbols an edge of that kind is stored from the id
\* that find_symbol_by_usr resolves s to, and query_edges_by_kind_from(kind,
\* s) returns the name of t.
C27_LoadedRelationshipsQueryable ==
    \A rel \in LoadedRelationships :
        /\ \E e \in KvEdges :
              /\ e.kind = rel.kind
              /\ e.from_sym = SymgraphDb_find_symbol_by_usr(sled, rel.from)
              /\ e.to_sym = SymgraphDb_find_symbol_by_usr(sled, rel.to)
        /\ (ret.op = "query_edges_by_kind_from" /\ ret.arg = rel.from
             /\ ret.kind = rel.kind)
               => ResolvedName(rel.to) \in Range(ret.kvNames)

\* what the query gives instead: nothing for a symbol that a SCIP index named
RelationshipQueriesEmpty ==
    (ret.op = "query_edges_by_kind_from" /\ ret.arg \in {ScipMain, ScipHelper})
        => ret.kvNames = <<>>

\* C28: get_stats reports as files the number of distinct paths ensured, as
\* symbols the number of successful insert_symbol calls and as edges the
\* number of successful insert_edge calls; list_files has one entry for
\* each file.
C28_StatsCountEachEntityOnce ==
    /\ ret.op = "get_stats" =>
          ret.args = <<Cardinality(DOMAIN firstFile), Len(symLog), Len(edgeLog)>>
    /\ ret.op = "list_files" =>
          /\ Len(ret.kvNames) = Cardinality(DOMAIN firstFile)
          /\ \A path \in DOMAIN firstFile : Count(path, ret.kvNames) = 1

\* what the reports give: every file twice, symbols and edges once
StatsCountFilesTwice ==
    /\ ret.op = "get_stats" =>
          ret.args = <<2 * Cardinality(DOMAIN firstFile), Len(symLog), Len(edgeLog)>>
    /\ ret.op = "list_files" =>
          \A path \in DOMAIN firstFile : Count(path, ret.kvNames) = 2

\* the inserted symbol-to-symbol edges whose kind satisfies the test and whose
\* source is the id that find_symbol_by_usr resolves the usr to
EdgesFromResolved(usr, KindTest(_)) ==
    {e \in 1..Len(edgeLog) :
        /\ KindTest(edgeLog[e].kind)
        /\ IsSome(edgeLog[e].from_sym) /\ IsSome(edgeLog[e].to_sym)
        /\ Some(symLog[Unwrap(edgeLog[e].from_sym)].kv)
               = SymgraphDb_find_symbol_by_usr(sled, usr)}

\* C29: for any kind string K, the key-value query_edges_by_kind_from(K, u)
\* returns only names of targets of edges whose kind is exactly K and whose
\* source is exactly the id u resolves to, each no more often than there are
\* such edges.
C29_QueryMatchesKindExactly ==
    ret.op = "query_edges_by_kind_from" =>
        LET es == EdgesFromResolved(ret.arg, LAMBDA k : k = ret.kind)
        IN \A n \in Range(ret.kvNames) : Count(n, ret.kvNames) <= TargetCount(n, es)

\* what the scan matches: the kind, and every kind that continues it after a colon
QueryMatchesKindPrefix ==
    ret.op = "query_edges_by_kind_from" =>
        LET es == EdgesFromResolved(ret.arg,
                      LAMBDA k : k = ret.kind \/ IsPrefix(ret.kind \o ":", k))
        IN /\ \A n \in Range(ret.kvNames) : Count(n, ret.kvNames) = TargetCount(n, es)
           /\ \A e \in es : TargetName(e) \in Range(ret.kvNames)

\* the usrs that the scan which returned last generated
ScannedUsrs == {"r:@" \o ret.arg \o "@" \o ret.args[i] : i \in 1..Len(ret.args)}
KvSymbolsWithUsr(usr) ==
    {k \in DOMAIN sled : IsPrefix("symbol:", k) /\ sled[k].usr = Some(usr)}
DbSymbolsWithUsr(usr) == {i \in 1..Len(conn.symbols) : conn.symbols[i].usr = Some(usr)}
\* the insert_symbol calls with the usr that returned an error after the
\* symbol record was written
HalfWrittenSymbols(usr) ==
    {i \in 1..Len(failLog) : /\ failLog[i].op = "insert_symbol"
                              /\ failLog[i].arg = usr /\ failLog[i].wrote = 1}
FirstInserted(usr) == symLog[CHOOSE i \in CallsWithUsr(usr) : \A j \in CallsWithUsr(usr) : i <= j]

\* C30: after any number of scans of Rust sources into one store, there is
\* exactly one symbol record for every usr that the scan generated, and
\* find_symbol_by_usr returns the id that the first insertion of the usr gave.
C30_OneSymbolPerUsr ==
    (ret.op = "process_rust_package" /\ ~ret.err) =>
        \A usr \in ScannedUsrs :
            /\ Cardinality(KvSymbolsWithUsr(usr)) = 1
            /\ Cardinality(DbSymbolsWithUsr(usr)) = 1
            /\ Cardinality(CallsWithUsr(usr)) = 1
            /\ SymgraphDb_find_symbol_by_usr(sled, usr) = Some(FirstInserted(usr).kv)
            /\ Db_find_symbol_by_usr(conn, usr) = Some(FirstInserted(usr).db)

\* C30 amended: after a scan that returned without an error, every usr it
\* generated was inserted by exactly one successful insert_symbol call,
\* find_symbol_by_usr returns the id of that call, the relational store holds
\* one row of the usr, and the key-value store holds one record of it and one
\* more for every insert_symbol call of an earlier scan that failed at the
\* write of the usr index.
C30_OneInsertionPerUsr ==
    (ret.op = "process_rust_package" /\ ~ret.err) =>
        \A usr \in ScannedUsrs :
            /\ Cardinality(KvSymbolsWithUsr(usr))
                   = 1 + Cardinality(HalfWrittenSymbols(usr))
            /\ Cardinality(DbSymbolsWithUsr(usr)) = 1
            /\ Cardinality(CallsWithUsr(usr)) = 1
            /\ SymgraphDb_find_symbol_by_usr(sled, usr) = Some(FirstInserted(usr).kv)
            /\ Db_find_symbol_by_usr(conn, usr) = Some(FirstInserted(usr).db)

\* the package app was scanned twice and more: two call edges between the
\* one symbol of main and the one symbol of helper
C30_Witness ==
    /\ ret.op = "process_rust_package" /\ ~ret.err /\ ret.arg = "app"
    /\ Cardinality({e \in 1..Len(edgeLog) : edgeLog[e].kind = "call"}) >= 2
    /\ Cardinality(KvSymbolsWithUsr("r:@app@main")) = 1
    /\ Cardinality(KvSymbolsWithUsr("r:@app@helper")) = 1

====
